---- MODULE Spec2Model ----
(***************************************************************************)
(* Othello_MCTS: the board (src/board.py) and the Monte Carlo tree search  *)
(* player (src/players/mcts_ai.py), driven by a game loop that plays       *)
(* moves on the board, notifies the engine and asks it for moves.          *)
(*                                                                         *)
(* Boards are objects: `boards` maps a reference to a grid, so that        *)
(* copy() and make_move() keep their reference semantics.  The search      *)
(* tree is an arena `nodes` of records addressed by index; 0 stands for    *)
(* the absent node (Python None).  Rewards are 0, 0.5 and 1.0 in the       *)
(* source; `wins` is kept in half units (0, 1, 2) to stay in the integers. *)
(***************************************************************************)
EXTENDS Integers, Sequences, FiniteSets, TLC

\* ------------------------------------------------------------------ bounds
MaxIterations == 3
MaxCalls == 3

\* ------------------------------------------------------------- enums.py
BLACK == 1
WHITE == -1
EMPTY == 0

\* an opponent that is the same color
opponent_same(p) == p

opponent(p) == IF p = BLACK THEN WHITE ELSE BLACK

\* Python None for a move; a move is a pair <<row, col>>
None == <<>>

\* ------------------------------------------------------------- board.py
Size == 4
Rows == 0 .. (Size - 1)
AllMoves == { <<r, c>> : r \in Rows, c \in Rows }

DIRECTIONS ==
  << <<-1, -1>>, <<-1, 0>>, <<-1, 1>>,
     <<0, -1>>,             <<0, 1>>,
     <<1, -1>>,  <<1, 0>>,  <<1, 1>> >>

\* OthelloBoard.__init__: the grid after construction
InitialBoard ==
  LET mid == Size \div 2 IN
  [r \in Rows |-> [c \in Rows |->
     IF (r = mid - 1 /\ c = mid - 1) \/ (r = mid /\ c = mid) THEN WHITE
     ELSE IF (r = mid - 1 /\ c = mid) \/ (r = mid /\ c = mid - 1) THEN BLACK
     ELSE EMPTY]]

\* the sizes __init__ accepts
ValidSizes == {4, 6, 8}

NoException == "none"
ValueError == "ValueError"

\* a constructor that puts each color on one row of the center block
OthelloBoard_rows(size) ==
  IF size \notin ValidSizes THEN [raised |-> ValueError]
  ELSE LET mid == size \div 2 IN
       [raised |-> NoException,
        board |-> [r \in 0 .. (size - 1) |-> [c \in 0 .. (size - 1) |->
          IF r = mid - 1 /\ c \in {mid - 1, mid} THEN WHITE
          ELSE IF r = mid /\ c \in {mid - 1, mid} THEN BLACK
          ELSE EMPTY]]]

\* a constructor that takes every even size
OthelloBoard_even(size) ==
  IF size <= 0 \/ size % 2 # 0 THEN [raised |-> ValueError]
  ELSE LET mid == size \div 2 IN
       [raised |-> NoException,
        board |-> [r \in 0 .. (size - 1) |-> [c \in 0 .. (size - 1) |->
          IF (r = mid - 1 /\ c = mid - 1) \/ (r = mid /\ c = mid) THEN WHITE
          ELSE IF (r = mid - 1 /\ c = mid) \/ (r = mid /\ c = mid - 1) THEN BLACK
          ELSE EMPTY]]]

\* OthelloBoard(size): the exception raised, and the grid when none is
OthelloBoard(size) ==
  IF size \notin ValidSizes THEN [raised |-> ValueError]
  ELSE LET mid == size \div 2 IN
       [raised |-> NoException,
        board |-> [r \in 0 .. (size - 1) |-> [c \in 0 .. (size - 1) |->
          IF (r = mid - 1 /\ c = mid - 1) \/ (r = mid /\ c = mid) THEN WHITE
          ELSE IF (r = mid - 1 /\ c = mid) \/ (r = mid /\ c = mid - 1) THEN BLACK
          ELSE EMPTY]]]

in_bounds(r, c) == 0 <= r /\ r < Size /\ 0 <= c /\ c < Size

\* the while loop of _discs_to_flip_in_direction, from cell (r, c) on
RECURSIVE ScanDirection(_, _, _, _, _, _, _)
ScanDirection(b, r, c, color, dr, dc, discs) ==
  IF ~in_bounds(r, c) THEN <<>>
  ELSE IF b[r][c] = EMPTY THEN <<>>
  ELSE IF b[r][c] = color THEN discs
  ELSE ScanDirection(b, r + dr, c + dc, color, dr, dc, Append(discs, <<r, c>>))

\* a scan that keeps only the first disc of the run it found
discs_to_flip_in_direction_first(b, row, col, color, dr, dc) ==
  LET discs == ScanDirection(b, row + dr, col + dc, color, dr, dc, <<>>)
  IN IF discs = <<>> THEN <<>> ELSE << discs[1] >>

discs_to_flip_in_direction(b, row, col, color, dr, dc) ==
  ScanDirection(b, row + dr, col + dc, color, dr, dc, <<>>)

\* the for loop of discs_to_flip over DIRECTIONS[k..]
RECURSIVE FlipsFromDirection(_, _, _, _, _)
FlipsFromDirection(b, row, col, color, k) ==
  IF k > Len(DIRECTIONS) THEN <<>>
  ELSE discs_to_flip_in_direction(b, row, col, color,
                                  DIRECTIONS[k][1], DIRECTIONS[k][2])
       \o FlipsFromDirection(b, row, col, color, k + 1)

\* discs_to_flip without the test that the cell is empty
discs_to_flip_occupied(b, row, col, color) ==
  FlipsFromDirection(b, row, col, color, 1)

discs_to_flip(b, row, col, color) ==
  IF b[row][col] # EMPTY THEN <<>>
  ELSE FlipsFromDirection(b, row, col, color, 1)

is_valid_move(b, row, col, color) == Len(discs_to_flip(b, row, col, color)) > 0

\* the nested for loops of get_valid_moves, from cell number k on (row-major)
RECURSIVE ValidMovesFrom(_, _, _)
ValidMovesFrom(b, color, k) ==
  IF k >= Size * Size THEN <<>>
  ELSE LET r == k \div Size
           c == k % Size
       IN (IF is_valid_move(b, r, c, color) THEN << <<r, c>> >> ELSE <<>>)
          \o ValidMovesFrom(b, color, k + 1)

\* a get_valid_moves that puts each move it finds at the front of the list
get_valid_moves_front(b, color) ==
  LET q == ValidMovesFrom(b, color, 0)
  IN [k \in 1 .. Len(q) |-> q[Len(q) + 1 - k]]

get_valid_moves(b, color) == ValidMovesFrom(b, color, 0)

\* a make_move that writes the flips with row and column exchanged
make_move_transposed(b, row, col, color) ==
  LET flips == discs_to_flip(b, row, col, color) IN
  IF flips = <<>> THEN b
  ELSE [r \in Rows |-> [c \in Rows |->
          IF (r = row /\ c = col) \/ (\E k \in 1 .. Len(flips) : flips[k] = <<c, r>>)
          THEN color ELSE b[r][c]]]

\* make_move: the grid after the call (unchanged when it returns False)
make_move(b, row, col, color) ==
  LET flips == discs_to_flip(b, row, col, color) IN
  IF flips = <<>> THEN b
  ELSE [r \in Rows |-> [c \in Rows |->
          IF (r = row /\ c = col) \/ (\E k \in 1 .. Len(flips) : flips[k] = <<r, c>>)
          THEN color ELSE b[r][c]]]

\* a make_move that reports success for every empty cell
make_move_ok_unchecked(b, row, col, color) == b[row][col] = EMPTY

\* make_move: its return value
make_move_ok(b, row, col, color) == discs_to_flip(b, row, col, color) # <<>>

CountCells(b, v) == Cardinality({ m \in AllMoves : b[m[1]][m[2]] = v })

\* a tally with `else` for `elif`: every cell that is not BLACK counts as WHITE
get_score_else(b) ==
  << CountCells(b, BLACK), CountCells(b, WHITE) + CountCells(b, EMPTY) >>

get_score(b) == << CountCells(b, BLACK), CountCells(b, WHITE) >>

is_full(b) == \A r \in Rows : \A c \in Rows : b[r][c] # EMPTY

\* a game that ends as soon as one color has no valid move
is_game_over_either(b) ==
  is_full(b) \/ get_valid_moves(b, BLACK) = <<>> \/ get_valid_moves(b, WHITE) = <<>>

is_game_over(b) ==
  is_full(b) \/ (get_valid_moves(b, BLACK) = <<>> /\ get_valid_moves(b, WHITE) = <<>>)

\* a copy that hands back the same object
copy_alias(ref) == ref

\* copy(): the reference of the new board object (its grid is a copy of the
\* grid of `ref`); the engine's working board lives at reference "sim"
copy(ref) == "sim"

\* no board object at a reference
NoBoard == <<>>


\* ------------------------------------------------ gui.py: the game driver
\* on_move_made followed by check_game_state: the color on turn after
\* `mover` has moved and the grid has become b
NextColor(b, mover) ==
  LET cc == opponent(mover) IN
  IF is_game_over(b) THEN cc
  ELSE IF get_valid_moves(b, cc) = <<>> THEN opponent(cc)
  ELSE cc

\* positions the game starts from: the moves played from the initial board,
\* each by the color on turn
StartSeqs ==
  { << <<0, 1>>, <<0, 0>>, <<1, 0>>, <<0, 2>>, <<0, 3>>, <<2, 0>>, <<3, 0>>, <<2, 3>> >>,
    << <<0, 1>>, <<2, 0>>, <<3, 1>>, <<0, 2>>, <<1, 3>>, <<3, 3>>, <<0, 3>>, <<2, 3>> >>,
    << <<0, 1>>, <<2, 0>>, <<3, 2>>, <<2, 3>>, <<3, 3>>, <<0, 2>>, <<3, 1>> >>,
    << <<0, 1>>, <<0, 2>>, <<3, 3>>, <<3, 2>>, <<2, 3>>, <<0, 0>>, <<3, 1>> >> }

RECURSIVE PlaySeq(_, _, _, _)
PlaySeq(b, cc, seq, k) ==
  IF k > Len(seq) THEN [board |-> b, current_color |-> cc]
  ELSE LET b2 == make_move(b, seq[k][1], seq[k][2], cc)
       IN PlaySeq(b2, NextColor(b2, cc), seq, k + 1)

StartStates == { PlaySeq(InitialBoard, BLACK, seq, 1) : seq \in StartSeqs }

\* ------------------------------------------------- mcts_ai.py: MCTSNode
\* MCTSNode.__init__
MCTSNode(parent, move, player, untried) ==
  [parent |-> parent, move |-> move, player_to_move |-> player,
   children |-> <<>>, untried_moves |-> untried, visits |-> 0, wins |-> 0]

\* list.remove(x): drop the first occurrence of x
RECURSIVE Remove(_, _)
Remove(s, x) ==
  IF s = <<>> THEN <<>>
  ELSE IF Head(s) = x THEN Tail(s)
  ELSE <<Head(s)>> \o Remove(Tail(s), x)

\* Python max(s, key=...): the index of the first element with the largest
\* key, given the sequence of the keys
FirstMax(keys) ==
  CHOOSE k \in 1 .. Len(keys) :
    /\ \A j \in 1 .. Len(keys) : keys[j] <= keys[k]
    /\ \A j \in 1 .. (k - 1) : keys[j] < keys[k]

\* exploration_const = 1.4, in tenths
exploration_const == 14

\* math.sqrt(2.0 * math.log(P) / v) in millionths, row P, column v
SQRT_TERM ==
  << <<0, 0, 0, 0, 0, 0, 0, 0>>,
     <<1177410, 832555, 679778, 588705, 526554, 480676, 445019, 416277>>,
     <<1482304, 1048147, 855809, 741152, 662906, 605148, 560258, 524074>>,
     <<1665109, 1177410, 961351, 832555, 744659, 679778, 629352, 588705>>,
     <<1794123, 1268636, 1035837, 897061, 802356, 732447, 678115, 634318>>,
     <<1893018, 1338566, 1092935, 946509, 846584, 772822, 715494, 669283>>,
     <<1972770, 1394959, 1138979, 986385, 882249, 805380, 745637, 697479>>,
     <<2039334, 1442027, 1177410, 1019667, 912018, 832555, 770796, 721013>> >>

\* float("inf"), above every finite score in millionths
Infinity == 1000000000

\* a score that takes an unvisited child for a child without merit
uct_score_zero(ns, n, ch) ==
  IF ns[ch].visits = 0 THEN 0
  ELSE LET exploit == (ns[ch].wins * 500000) \div ns[ch].visits
           explore == (exploration_const * SQRT_TERM[ns[n].visits][ns[ch].visits]) \div 10
       IN exploit + explore

\* uct_score of child ch of node n, in millionths
uct_score(ns, n, ch) ==
  IF ns[ch].visits = 0 THEN Infinity
  ELSE LET exploit == (ns[ch].wins * 500000) \div ns[ch].visits
           explore == (exploration_const * SQRT_TERM[ns[n].visits][ns[ch].visits]) \div 10
       IN exploit + explore

uct_select_child(ns, n) ==
  LET ch == ns[n].children
  IN ch[FirstMax([k \in 1 .. Len(ch) |-> uct_score(ns, n, ch[k])])]

\* an add_child that leaves the move in the untried list of the node
add_child_keep(ns, n, move, player, untried) ==
  Append([ns EXCEPT ![n].children = Append(@, Len(ns) + 1)],
         MCTSNode(n, move, player, untried))

\* add_child: the arena after node n got a new child (at index Len(ns) + 1)
add_child(ns, n, move, player, untried) ==
  Append([ns EXCEPT ![n].untried_moves = Remove(@, move),
                    ![n].children = Append(@, Len(ns) + 1)],
         MCTSNode(n, move, player, untried))

\* an update that credits the complement of the reward
update_flip(ns, n, reward) ==
  [ns EXCEPT ![n].visits = @ + 1, ![n].wins = @ + (2 - reward)]

\* an update that counts no visit
update_unvisited(ns, n, reward) ==
  [ns EXCEPT ![n].wins = @ + reward]

\* an update that credits the reward twice
update_twice(ns, n, reward) ==
  [ns EXCEPT ![n].visits = @ + 1, ![n].wins = @ + reward + reward]

\* MCTSNode.update
update(ns, n, reward) ==
  [ns EXCEPT ![n].visits = @ + 1, ![n].wins = @ + reward]

\* ----------------------------------------------- mcts_ai.py: MCTSPlayer
\* a backpropagation that credits the node of the rollout only
backpropagate_leaf(ns, n, reward) ==
  IF n = 0 THEN ns ELSE update(ns, n, reward)

\* a backpropagation that credits the parent of the node of the rollout only
backpropagate_parents(ns, n, reward) ==
  IF n = 0 THEN ns ELSE backpropagate_leaf(ns, ns[n].parent, reward)

\* _backpropagate: update the node and every ancestor
RECURSIVE backpropagate(_, _, _)
backpropagate(ns, n, reward) ==
  IF n = 0 THEN ns
  ELSE backpropagate(update(ns, n, reward), ns[n].parent, reward)

\* a reward counted for the other color
Reward_opponent(b, c) ==
  LET own == CountCells(b, opponent(c))
      other == CountCells(b, c)
  IN IF own > other THEN 2 ELSE IF own < other THEN 0 ELSE 1

\* the end of _rollout: the reward of the final grid for color c, in halves
Reward(b, c) ==
  LET black_score == get_score(b)[1]
      white_score == get_score(b)[2]
  IN IF c = BLACK
     THEN (IF black_score > white_score THEN 2
           ELSE IF black_score < white_score THEN 0 ELSE 1)
     ELSE (IF white_score > black_score THEN 2
           ELSE IF white_score < black_score THEN 0 ELSE 1)

\* the SELECTION loop of choose_move from node n with working grid b and
\* color p to move: the node reached, the grid and the color there
RECURSIVE Selection(_, _, _, _)
Selection(ns, n, b, p) ==
  IF ns[n].untried_moves = <<>> /\ ns[n].children # <<>>
  THEN LET ch == uct_select_child(ns, n)
           b2 == IF ns[ch].move # None
                 THEN make_move(b, ns[ch].move[1], ns[ch].move[2], p)
                 ELSE b
       IN Selection(ns, ch, b2, opponent(p))
  ELSE [node |-> n, board |-> b, player |-> p]

\* the first child with the fewest visits
best_child_min(ns, r) ==
  LET ch == ns[r].children
  IN ch[FirstMax([k \in 1 .. Len(ch) |-> 0 - ns[ch[k]].visits])]

\* the last child with the most visits
best_child_last(ns, r) ==
  LET ch == ns[r].children
  IN ch[CHOOSE k \in 1 .. Len(ch) :
          /\ \A j \in 1 .. Len(ch) : ns[ch[j]].visits <= ns[ch[k]].visits
          /\ \A j \in (k + 1) .. Len(ch) : ns[ch[j]].visits < ns[ch[k]].visits]

\* max(root.children, key=lambda c: c.visits)
best_child(ns, r) ==
  LET ch == ns[r].children
  IN ch[FirstMax([k \in 1 .. Len(ch) |-> ns[ch[k]].visits])]

\* the end of choose_move: the move returned for root r
BestMove(ns, r) ==
  IF ns[r].children = <<>> THEN None ELSE ns[best_child(ns, r)].move

\* the pass test left out
no_root_moves_never(root_moves) == FALSE

\* `if not root_moves`
no_root_moves(root_moves) == root_moves = <<>>

\* the budget taken whole, whatever the root has seen
Remaining_full(its, visits) == its

\* remaining = max(0, self.iterations - root.visits)
Remaining(its, visits) == IF its - visits > 0 THEN its - visits ELSE 0

\* the loop index reported as it is
progress_args_index(idx, rem) == << idx, rem >>

\* the arguments of the progress callback after iteration number i (from 0)
progress_args(idx, rem) == << idx + 1, rem >>

\* the final `self.root = None` left out: an unknown move keeps the root
find_child_keep(ns, r, move) ==
  IF r = 0 \/ move = None THEN 0
  ELSE LET ch == ns[r].children
           hits == { k \in 1 .. Len(ch) : ns[ch[k]].move = move }
       IN IF hits = {} THEN r
          ELSE ch[CHOOSE k \in hits : \A j \in hits : k <= j]

\* a pass (move None) leaves the root where it is
find_child_pass(ns, r, move) ==
  IF r = 0 THEN 0
  ELSE IF move = None THEN r
  ELSE LET ch == ns[r].children
           hits == { k \in 1 .. Len(ch) : ns[ch[k]].move = move }
       IN IF hits = {} THEN 0
          ELSE ch[CHOOSE k \in hits : \A j \in hits : k <= j]

\* notify_move_played: the child the root moves to, 0 when the tree is dropped
find_child(ns, r, move) ==
  IF r = 0 \/ move = None THEN 0
  ELSE LET ch == ns[r].children
           hits == { k \in 1 .. Len(ch) : ns[ch[k]].move = move }
       IN IF hits = {} THEN 0
          ELSE ch[CHOOSE k \in hits : \A j \in hits : k <= j]

\* the promoted child starts over
detach_reset(ns, child) == [ns EXCEPT ![child].parent = 0, ![child].visits = 0]

\* the promoted child keeps its parent reference
detach_kept(ns, child) == ns

\* child.parent = None
detach(ns, child) == [ns EXCEPT ![child].parent = 0]

\* ------------------------------------------- mcts_ai.py: random.Random
\* random.Random(None): seeded from the system, any draw may come
NoSeed == <<>>

\* the seeds tried: a seed stands for the stream of raw draws it produces
\* (taken periodically)
Seeds == { <<0>>, <<1, 0>>, <<0, 1, 2>>, <<2, 1, 1, 0>> }

\* random.Random(seed): the state of a new generator
Random(sd) == sd

\* a choice that does not come from the engine's own generator
rng_choice_global(st, n) == 1 .. n

\* self.rng.choice(seq), Len(seq) = n: the indices it may return
rng_choice(st, n) ==
  IF st = NoSeed THEN 1 .. n ELSE { (Head(st) % n) + 1 }

\* the state of the generator after a draw
rng_next(st) == IF st = NoSeed THEN NoSeed ELSE Tail(st) \o << Head(st) >>

\* no first run kept
NoRun == <<>>

\* -------------------------------------- othello_game.py: the legacy board
\* the cells of the legacy grid are 'black', 'white' or None
LegacyNone == "None"

legacy_opponent(color) == IF color = "black" THEN "white" ELSE "black"

\* self._valid_moves_cache = None
NoCache == [cached |-> FALSE, moves |-> <<>>]

\* othello_game.OthelloBoard(Size)
LegacyBoard ==
  LET mid == Size \div 2 IN
  [board |-> [r \in Rows |-> [c \in Rows |->
                IF (r = mid - 1 /\ c = mid - 1) \/ (r = mid /\ c = mid) THEN "white"
                ELSE IF (r = mid - 1 /\ c = mid) \/ (r = mid /\ c = mid - 1) THEN "black"
                ELSE LegacyNone]],
   current_player |-> "black",
   valid_moves_cache |-> NoCache,
   cache_player |-> LegacyNone]

\* the while loop of _check_direction, from cell (r, c) on
RECURSIVE legacy_check_walk(_, _, _, _, _, _, _, _)
legacy_check_walk(b, r, c, dr, dc, color, opp, found_opponent) ==
  IF ~in_bounds(r, c) THEN FALSE
  ELSE IF b[r][c] = LegacyNone THEN FALSE
  ELSE IF b[r][c] = opp
       THEN legacy_check_walk(b, r + dr, c + dc, dr, dc, color, opp, TRUE)
  ELSE IF b[r][c] = color THEN found_opponent
  ELSE legacy_check_walk(b, r + dr, c + dc, dr, dc, color, opp, found_opponent)

legacy_check_direction(b, row, col, dr, dc, color, opp) ==
  legacy_check_walk(b, row + dr, col + dc, dr, dc, color, opp, FALSE)

legacy_is_valid_move(b, row, col, color) ==
  /\ b[row][col] = LegacyNone
  /\ \E k \in 1 .. Len(DIRECTIONS) :
       legacy_check_direction(b, row, col, DIRECTIONS[k][1], DIRECTIONS[k][2],
                              color, legacy_opponent(color))

\* the nested for loops of get_valid_moves, from cell number k on (row-major)
RECURSIVE legacy_scan(_, _, _)
legacy_scan(b, color, k) ==
  IF k >= Size * Size THEN <<>>
  ELSE LET r == k \div Size
           c == k % Size
       IN (IF legacy_is_valid_move(b, r, c, color) THEN << <<r, c>> >> ELSE <<>>)
          \o legacy_scan(b, color, k + 1)

\* get_valid_moves(color) on the object o: the object afterwards, the list
\* returned, and whether it came from the cache
legacy_get_valid_moves(o, color) ==
  IF o.valid_moves_cache.cached /\ o.cache_player = color
  THEN [obj |-> o, moves |-> o.valid_moves_cache.moves, hit |-> TRUE]
  ELSE LET valid_moves == legacy_scan(o.board, color, 0)
       IN [obj |-> [o EXCEPT !.valid_moves_cache =
                                [cached |-> TRUE, moves |-> valid_moves],
                             !.cache_player = color],
           moves |-> valid_moves, hit |-> FALSE]

\* the while loop of _flip_pieces, from cell (r, c) on
RECURSIVE legacy_flip_walk(_, _, _, _, _, _, _, _)
legacy_flip_walk(b, r, c, dr, dc, color, opp, pieces_to_flip) ==
  IF ~in_bounds(r, c) THEN b
  ELSE IF b[r][c] = opp
       THEN legacy_flip_walk(b, r + dr, c + dc, dr, dc, color, opp,
                             pieces_to_flip \cup {<<r, c>>})
  ELSE IF b[r][c] = color
       THEN [rr \in Rows |-> [cc \in Rows |->
               IF <<rr, cc>> \in pieces_to_flip THEN color ELSE b[rr][cc]]]
  ELSE legacy_flip_walk(b, r + dr, c + dc, dr, dc, color, opp, pieces_to_flip)

legacy_flip_pieces(b, row, col, dr, dc, color, opp) ==
  legacy_flip_walk(b, row + dr, col + dc, dr, dc, color, opp, {})

\* the for loop of make_move over DIRECTIONS[k..], on the grid b that already
\* holds the new disc and the flips of the directions before k
RECURSIVE legacy_flip_directions(_, _, _, _, _, _)
legacy_flip_directions(b, row, col, color, opp, k) ==
  IF k > Len(DIRECTIONS) THEN b
  ELSE LET dr == DIRECTIONS[k][1]
           dc == DIRECTIONS[k][2]
           b1 == IF legacy_check_direction(b, row, col, dr, dc, color, opp)
                 THEN legacy_flip_pieces(b, row, col, dr, dc, color, opp)
                 ELSE b
       IN legacy_flip_directions(b1, row, col, color, opp, k + 1)

\* a make_move that keeps the cache
legacy_make_move_stale(o, row, col, color) ==
  IF ~legacy_is_valid_move(o.board, row, col, color) THEN [obj |-> o, ok |-> FALSE]
  ELSE LET opp == legacy_opponent(color)
           placed == [o.board EXCEPT ![row][col] = color]
       IN [obj |-> [o EXCEPT !.board = legacy_flip_directions(placed, row, col,
                                                              color, opp, 1),
                             !.current_player = opp],
           ok |-> TRUE]

\* make_move(row, col, color) on the object o: the object afterwards and the
\* value returned
legacy_make_move(o, row, col, color) ==
  IF ~legacy_is_valid_move(o.board, row, col, color) THEN [obj |-> o, ok |-> FALSE]
  ELSE LET opp == legacy_opponent(color)
           placed == [o.board EXCEPT ![row][col] = color]
       IN [obj |-> [board |-> legacy_flip_directions(placed, row, col,
                                                     color, opp, 1),
                    current_player |-> opp,
                    valid_moves_cache |-> NoCache,
                    cache_player |-> LegacyNone],
           ok |-> TRUE]

\* is_game_over() on the object o: the object afterwards and the value
\* returned
legacy_is_game_over(o) ==
  LET black_moves == legacy_get_valid_moves(o, "black")
      white_moves == legacy_get_valid_moves(black_moves.obj, "white")
  IN [obj |-> white_moves.obj,
      ok |-> Len(black_moves.moves) = 0 /\ Len(white_moves.moves) = 0]

\* copy() of the object o: the new object
legacy_copy(o) ==
  [LegacyBoard EXCEPT !.board = o.board, !.current_player = o.current_player]

\* the moves made on legacy boards in one run
MaxLegacyMoves == 1

LegacyColors == {"black", "white"}

\* no othello_game.OthelloBoard object has been built
NoLegacy == <<>>

\* no call on such an object has been made
NoCall == [op |-> "none", ref |-> "original", color |-> "black",
           moves |-> <<>>, hit |-> FALSE, ok |-> FALSE]

\* ------------------------------------------------------------------ state
VARIABLES
  boards,          \* the board objects: reference -> grid; "board" is the caller's
  current_color,   \* gui: the color on turn on the caller's board
  color,           \* MCTSPlayer.color
  iterations,      \* MCTSPlayer.iterations
  root,            \* MCTSPlayer.root (0 = None)
  nodes,           \* the MCTSNode objects of the retained tree
  pc,              \* "idle"; "notified" after notify_move_played; "iter" and
                   \* "rollout" inside choose_move; "done" when it has returned
  sim_board,       \* choose_move: the reference held by sim_board
  node,            \* choose_move: node
  player_to_move,  \* choose_move / _rollout: the color to move
  i,               \* choose_move: iterations completed in this call
  remaining,       \* choose_move: remaining
  has_cb,          \* choose_move: progress_callback is not None
  ret,             \* the value returned by the last choose_move
  progress,        \* the calls of progress_callback made by this call
  rng_draws,       \* the number of self.rng.choice calls made by this call
  calls,           \* the number of choose_move calls so far
  plies,           \* _rollout: the passes of the while loop made so far
  board_moves,     \* the discs placed by direct make_move calls so far
  move_ok,         \* whether the last direct make_move call returned True
  rng,             \* MCTSPlayer.rng: the stream of raw draws still to come
  seed,            \* the seed the engine was constructed with
  first_run,       \* the tree and the move of a first engine, kept to compare
  new_size,        \* the size the caller's board was (or is to be) constructed with
  raised,          \* the exception the constructor of the board has raised
  state,           \* OthelloGUI.state: "game" or "game_over"
  ai_thinking,     \* OthelloGUI.ai_thinking
  ai_done,         \* OthelloGUI.ai_done
  ai_result_move,  \* OthelloGUI.ai_result_move
  live_workers,    \* threads of start_ai_thinking whose worker() has not returned
  legacy,          \* the othello_game.OthelloBoard objects, by reference
  legacy_ret       \* the last call on such an object and what it returned

vars == << boards, current_color, color, iterations, root, nodes, pc,
           sim_board, node, player_to_move, i, remaining, has_cb, ret,
           progress, rng_draws, calls, plies, board_moves, move_ok, rng, seed, first_run,
                  new_size, raised,
                  state, ai_thinking, ai_done, ai_result_move,
                  live_workers, legacy, legacy_ret >>

Init ==
  /\ \E s \in StartStates :
       /\ boards = [board |-> s.board, sim |-> NoBoard]
       /\ current_color = s.current_color
  /\ color \in {BLACK, WHITE}
  /\ iterations \in 0 .. MaxIterations
  /\ root = 0
  /\ nodes = <<>>
  /\ pc = "idle"
  /\ sim_board = "sim"
  /\ node = 0
  /\ player_to_move = color
  /\ i = 0
  /\ remaining = 0
  /\ has_cb = FALSE
  /\ ret = None
  /\ progress = <<>>
  /\ rng_draws = 0
  /\ calls = 0
  /\ plies = 0
  /\ board_moves = 0
  /\ move_ok = FALSE
  /\ seed = NoSeed
  /\ rng = Random(seed)
  /\ first_run = NoRun
  /\ new_size = Size
  /\ state = "game"
  /\ ai_thinking = FALSE
  /\ ai_done = FALSE
  /\ ai_result_move = None
  /\ live_workers = 0
  /\ legacy = NoLegacy
  /\ legacy_ret = NoCall
  /\ raised = NoException

Idle == pc \in {"idle", "notified"}

\* ------------------------------------------------------------ the driver
\* handle_game_click / update_ai: the color on turn plays a valid move
PlayMove(m) ==
  /\ Idle
  /\ make_move_ok(boards["board"], m[1], m[2], current_color)
  /\ LET b2 == make_move(boards["board"], m[1], m[2], current_color)
     IN /\ boards' = [boards EXCEPT !["board"] = b2]
        /\ current_color' = NextColor(b2, current_color)
  /\ pc' = "idle"
  /\ UNCHANGED << color, iterations, root, nodes, sim_board, node,
                  player_to_move, i, remaining, has_cb, ret, progress,
                  rng_draws, calls, plies, board_moves,
                  move_ok, rng, seed, first_run,
                  new_size, raised,
                  state, ai_thinking, ai_done, ai_result_move,
                  live_workers, legacy, legacy_ret >>

\* MCTSPlayer.notify_move_played(move, player)
NotifyMovePlayed(move, player) ==
  /\ Idle
  /\ LET child == find_child(nodes, root, move)
     IN IF child # 0
        THEN /\ nodes' = detach(nodes, child)
             /\ root' = child
        ELSE /\ root' = 0
             /\ nodes' = <<>>
  /\ pc' = "notified"
  /\ UNCHANGED << boards, current_color, color, iterations, sim_board, node,
                  player_to_move, i, remaining, has_cb, ret, progress,
                  rng_draws, calls, plies, board_moves,
                  move_ok, rng, seed, first_run,
                  new_size, raised,
                  state, ai_thinking, ai_done, ai_result_move,
                  live_workers, legacy, legacy_ret >>

\* ---------------------------------------------- MCTSPlayer.choose_move
\* the call, up to the first iteration (or to the return when none runs)
choose_move(cb) ==
  /\ Idle
  /\ has_cb' = cb
  /\ rng_draws' = 0
  /\ i' = 0
  /\ LET root_moves == get_valid_moves(boards["board"], color) IN
     IF no_root_moves(root_moves)
     THEN /\ ret' = None
          /\ pc' = "done"
          /\ progress' = <<>>
          /\ UNCHANGED << root, nodes, remaining >>
     ELSE LET ns == IF root = 0
                    THEN Append(nodes, MCTSNode(0, None, color, root_moves))
                    ELSE nodes
              r == IF root = 0 THEN Len(nodes) + 1 ELSE root
              rem == Remaining(iterations, ns[r].visits)
          IN /\ nodes' = ns
             /\ root' = r
             /\ remaining' = rem
             /\ IF rem = 0
                THEN /\ progress' = IF cb THEN << <<iterations, iterations>> >>
                                    ELSE <<>>
                     /\ ret' = BestMove(ns, r)
                     /\ pc' = "done"
                ELSE /\ progress' = <<>>
                     /\ ret' = None
                     /\ pc' = "iter"
  /\ UNCHANGED << boards, current_color, color, iterations, sim_board, node,
                  player_to_move, plies, board_moves,
                  move_ok, rng, seed, first_run,
                  new_size, raised,
                  state, ai_thinking, ai_done, ai_result_move,
                  live_workers, legacy, legacy_ret >>

\* a caller of the engine calls choose_move
ChooseMove(cb) ==
  /\ calls < MaxCalls
  /\ calls' = calls + 1
  /\ choose_move(cb)

\* one pass of the for loop, up to the rollout: copy, selection, expansion
IterStart ==
  /\ pc = "iter"
  /\ LET ref == copy("board")
         sel == Selection(nodes, root, boards["board"], color)
         n == sel.node
     IN /\ sim_board' = ref
        /\ IF nodes[n].untried_moves # <<>>
           THEN \E k \in rng_choice(rng, Len(nodes[n].untried_moves)) :
                  LET move == nodes[n].untried_moves[k]
                      b2 == make_move(sel.board, move[1], move[2], sel.player)
                      next_player == opponent(sel.player)
                      next_moves == get_valid_moves(b2, next_player)
                  IN /\ nodes' = add_child(nodes, n, move, next_player, next_moves)
                     /\ node' = Len(nodes) + 1
                     /\ boards' = [boards EXCEPT ![ref] = b2]
                     /\ player_to_move' = next_player
                     /\ rng_draws' = rng_draws + 1
                     /\ rng' = rng_next(rng)
           ELSE /\ nodes' = nodes
                /\ node' = n
                /\ boards' = [boards EXCEPT ![ref] = sel.board]
                /\ player_to_move' = sel.player
                /\ rng_draws' = rng_draws
                /\ rng' = rng
  /\ pc' = "rollout"
  /\ plies' = 0
  /\ UNCHANGED << current_color, color, iterations, root, i, remaining,
                  has_cb, ret, progress, calls, board_moves,
                  move_ok, seed, first_run,
                  new_size, raised,
                  state, ai_thinking, ai_done, ai_result_move,
                  live_workers, legacy, legacy_ret >>

\* one pass of the while loop of _rollout
RolloutPly ==
  /\ pc = "rollout"
  /\ ~is_game_over(boards[sim_board])
  /\ LET b == boards[sim_board]
         moves == get_valid_moves(b, player_to_move)
     IN IF moves # <<>>
        THEN \E k \in rng_choice(rng, Len(moves)) :
               /\ boards' = [boards EXCEPT ![sim_board] =
                               make_move(b, moves[k][1], moves[k][2], player_to_move)]
               /\ rng_draws' = rng_draws + 1
               /\ rng' = rng_next(rng)
        ELSE /\ boards' = boards
             /\ rng_draws' = rng_draws
             /\ rng' = rng
  /\ player_to_move' = opponent(player_to_move)
  /\ plies' = plies + 1
  /\ UNCHANGED << current_color, color, iterations, root, nodes, pc, sim_board,
                  node, i, remaining, has_cb, ret, progress, calls,
                  board_moves,
                  move_ok, seed, first_run,
                  new_size, raised,
                  state, ai_thinking, ai_done, ai_result_move,
                  live_workers, legacy, legacy_ret >>

\* the end of _rollout, backpropagation, the progress callback, and the
\* return of choose_move after the last iteration
IterFinish ==
  /\ pc = "rollout"
  /\ is_game_over(boards[sim_board])
  /\ LET reward == Reward(boards[sim_board], color)
         ns == backpropagate(nodes, node, reward)
     IN /\ nodes' = ns
        /\ progress' = IF has_cb THEN Append(progress, progress_args(i, remaining))
                       ELSE progress
        /\ i' = i + 1
        /\ IF i + 1 < remaining
           THEN /\ pc' = "iter"
                /\ ret' = ret
           ELSE /\ pc' = "done"
                /\ ret' = BestMove(ns, root)
  /\ node' = 0
  /\ UNCHANGED << boards, current_color, color, iterations, root, sim_board,
                  player_to_move, remaining, has_cb, rng_draws, calls, plies, board_moves,
                  move_ok, rng, seed, first_run,
                  new_size, raised,
                  state, ai_thinking, ai_done, ai_result_move,
                  live_workers, legacy, legacy_ret >>

\* the caller takes the result; the frame of the call and its working
\* board are gone
ConsumeResult ==
  /\ pc = "done"
  /\ pc' = "idle"
  /\ boards' = [boards EXCEPT !["sim"] = NoBoard]
  /\ ret' = None
  /\ progress' = <<>>
  /\ rng_draws' = 0
  /\ i' = 0
  /\ remaining' = 0
  /\ has_cb' = FALSE
  /\ player_to_move' = color
  /\ plies' = 0
  /\ UNCHANGED << current_color, color, iterations, root, nodes, sim_board,
                  node, calls, board_moves,
                  move_ok, rng, seed, first_run,
                  new_size, raised,
                  state, ai_thinking, ai_done, ai_result_move,
                  live_workers, legacy, legacy_ret >>

Next ==
  \/ \E m \in AllMoves : PlayMove(m)
  \/ \E m \in AllMoves \cup {None} : \E p \in {BLACK, WHITE} : NotifyMovePlayed(m, p)
  \/ \E cb \in BOOLEAN : ChooseMove(cb)
  \/ IterStart
  \/ RolloutPly
  \/ IterFinish
  \/ ConsumeResult

Spec == Init /\ [][Next]_vars


\* ------------------------------------------------------------ properties
CallerBoard == boards["board"]
RootMoves == get_valid_moves(CallerBoard, color)
SeqToSet(q) == { q[k] : k \in 1 .. Len(q) }
RootChildren == IF root = 0 THEN {} ELSE SeqToSet(nodes[root].children)
MaxChildVisits(c) == \A d \in RootChildren : nodes[d].visits <= nodes[c].visits
RowMajorLE(m1, m2) == m1[1] < m2[1] \/ (m1[1] = m2[1] /\ m1[2] <= m2[2])
ChooseMoveStep == calls' = calls + 1
NotifyInputs == (AllMoves \cup {None}) \X {BLACK, WHITE}

RECURSIVE Descendants(_, _)
Descendants(ns, n) ==
  UNION { {c} \cup Descendants(ns, c) : c \in SeqToSet(ns[n].children) }

\* C1: every move choose_move returns is a valid move of the engine's color
\* on the board of that call
C1_ReturnedMoveIsValid ==
  (pc = "done" /\ ret # None) => ret \in SeqToSet(RootMoves)

\* C2: with a valid move on the board and a budget of at least 1,
\* choose_move returns a move, never None
C2_NoneOnlyOnPass ==
  (pc = "done" /\ iterations >= 1 /\ RootMoves # <<>>) => ret # None

\* C3: without a valid move choose_move returns None at once: no iteration,
\* no progress callback, no random draw, the root, the nodes and the boards
\* as they were
C3_PassReturnsNoneWithoutSearch ==
  [][(ChooseMoveStep /\ RootMoves = <<>>)
       => /\ pc' = "done"
          /\ ret' = None
          /\ progress' = <<>>
          /\ rng_draws' = 0
          /\ root' = root
          /\ nodes' = nodes
          /\ boards' = boards]_vars

C3_Witness ==
  /\ pc = "done"
  /\ ret = None
  /\ RootMoves = <<>>
  /\ get_valid_moves(CallerBoard, opponent(color)) # <<>>
  /\ root # 0
  /\ nodes[root].visits > 0

\* C4: no step of choose_move changes a cell of the caller's board; the
\* board the iterations work on is another object
C4_CallerBoardNotMutated ==
  [][(ChooseMoveStep \/ pc \in {"iter", "rollout"})
       => /\ boards'["board"] = boards["board"]
          /\ pc' = "rollout" => sim_board' # "board"]_vars

C4_Witness ==
  /\ pc = "done"
  /\ ret # None
  /\ boards["sim"] # NoBoard
  /\ boards["sim"] # boards["board"]

\* C5: the move returned is the move of a child of the root whose visit
\* count is the largest among the root's children
C5_ReturnsMostVisitedChild ==
  (pc = "done" /\ ret # None)
    => \E c \in RootChildren : nodes[c].move = ret /\ MaxChildVisits(c)

C5_Witness ==
  /\ pc = "done"
  /\ ret # None
  /\ Len(nodes[root].children) >= 2
  /\ nodes[nodes[root].children[1]].move # ret
  /\ \E d \in RootChildren : ~MaxChildVisits(d)

\* C6 as stated: among the most visited children the move that is first in
\* row-major order is returned
C6_TieBrokenRowMajor ==
  (pc = "done" /\ ret # None)
    => \A c \in RootChildren : MaxChildVisits(c) => RowMajorLE(ret, nodes[c].move)

\* C6 amended: among the most visited children the one that is first in the
\* root's list of children (the one expanded earliest) is returned
C6_TieBrokenByChildOrder ==
  (pc = "done" /\ ret # None)
    => \E k \in 1 .. Len(nodes[root].children) :
         LET ch == nodes[root].children IN
         /\ nodes[ch[k]].move = ret
         /\ MaxChildVisits(ch[k])
         /\ \A j \in 1 .. (k - 1) : ~MaxChildVisits(ch[j])

C6_Witness ==
  /\ pc = "done"
  /\ ret # None
  /\ \E c \in RootChildren :
       /\ MaxChildVisits(c)
       /\ nodes[c].move # ret
       /\ RowMajorLE(nodes[c].move, ret)

\* C7 as stated: one callback per completed iteration, the first argument
\* strictly increasing, the second always the configured budget, and the two
\* equal in the last callback only
C7_ProgressTotalIsBudget ==
  (pc = "done" /\ has_cb /\ RootMoves # <<>>)
    => LET n == Len(progress) IN
       /\ n >= 1
       /\ i > 0 => n = i
       /\ \A k \in 1 .. n : progress[k][2] = iterations
       /\ \A k \in 1 .. (n - 1) : progress[k][1] < progress[k + 1][1]
       /\ \A k \in 1 .. n : (progress[k][1] = progress[k][2]) <=> (k = n)

\* C7 amended: the second argument is the number of iterations this call
\* runs, the budget minus the visits the root had at entry; the callbacks
\* are (1, R), (2, R), ... (R, R), one after each completed iteration; when
\* nothing remains to run the only callback is (budget, budget)
C7_ProgressReportsThisCall ==
  (pc \in {"iter", "rollout", "done"} /\ has_cb /\ RootMoves # <<>>)
    => IF remaining = 0
       THEN pc = "done" /\ progress = << <<iterations, iterations>> >>
       ELSE /\ progress = [k \in 1 .. i |-> <<k, remaining>>]
            /\ i <= remaining
            /\ pc = "done" <=> i = remaining
            /\ nodes[root].visits - i = iterations - remaining

C7_Witness ==
  /\ pc = "done"
  /\ has_cb
  /\ remaining > 0
  /\ remaining < iterations
  /\ Len(progress) = remaining
  /\ progress[remaining] = <<remaining, remaining>>

\* C8: called with a retained root that already has the budget's visits,
\* choose_move runs nothing: the nodes and the root stay as they are, no
\* random draw, and the callback is called once, with (budget, budget)
C8_SpentBudgetRunsNothing ==
  [][(/\ ChooseMoveStep
      /\ root # 0
      /\ nodes[root].visits >= iterations
      /\ RootMoves # <<>>)
       => /\ pc' = "done"
          /\ nodes' = nodes
          /\ root' = root
          /\ rng_draws' = 0
          /\ progress' = IF has_cb' THEN << <<iterations, iterations>> >> ELSE <<>>]_vars

C8_Witness ==
  /\ pc = "done"
  /\ has_cb
  /\ iterations >= 1
  /\ RootMoves # <<>>
  /\ root # 0
  /\ remaining = 0
  /\ nodes[root].visits >= iterations
  /\ progress = << <<iterations, iterations>> >>

C10_RerootKeepsStatistics ==
  [][\A a \in NotifyInputs :
       (NotifyMovePlayed(a[1], a[2]) /\ root' # 0)
         => /\ nodes'[root'].visits = nodes[root'].visits
            /\ nodes'[root'].wins = nodes[root'].wins
            /\ \A d \in Descendants(nodes, root') : nodes'[d] = nodes[d]]_vars

C10_Witness ==
  /\ pc = "notified"
  /\ root # 0
  /\ nodes[root].move # None
  /\ nodes[root].visits >= 2
  /\ nodes[root].children # <<>>

\* =====================================================================
\* The board on its own: a caller that holds a board, may take one copy of
\* it, and calls make_move with any cell and color on either object.

MaxBoardMoves == 3

\* the boards the caller starts from: a new board, and boards late in a
\* game (the start positions of the game driver and the boards one move on)
BoardStarts ==
  {InitialBoard}
  \cup { s.board : s \in StartStates }
  \cup UNION { { make_move(s.board, m[1], m[2], s.current_color) :
                   m \in SeqToSet(get_valid_moves(s.board, s.current_color)) } :
               s \in StartStates }

InitBoard ==
  /\ \E b \in BoardStarts : boards = [board |-> b, sim |-> NoBoard]
  /\ current_color = BLACK
  /\ color = BLACK
  /\ iterations = 0
  /\ root = 0
  /\ nodes = <<>>
  /\ pc = "idle"
  /\ sim_board = "sim"
  /\ node = 0
  /\ player_to_move = BLACK
  /\ i = 0
  /\ remaining = 0
  /\ has_cb = FALSE
  /\ ret = None
  /\ progress = <<>>
  /\ rng_draws = 0
  /\ calls = 0
  /\ plies = 0
  /\ board_moves = 0
  /\ move_ok = FALSE
  /\ seed = NoSeed
  /\ rng = Random(seed)
  /\ first_run = NoRun
  /\ new_size = Size
  /\ state = "game"
  /\ ai_thinking = FALSE
  /\ ai_done = FALSE
  /\ ai_result_move = None
  /\ live_workers = 0
  /\ legacy = NoLegacy
  /\ legacy_ret = NoCall
  /\ raised = NoException

\* the object a call goes to: the caller's board or the copy it took
BoardRef(who) == IF who = "original" THEN "board" ELSE sim_board

\* OthelloBoard.make_move(row, col, color) on the original or on the copy
BoardMakeMove(who, row, col, c) ==
  LET ref == BoardRef(who) IN
  /\ boards[ref] # NoBoard
  /\ board_moves < MaxBoardMoves
  /\ boards' = [boards EXCEPT ![ref] = make_move(boards[ref], row, col, c)]
  /\ move_ok' = make_move_ok(boards[ref], row, col, c)
  /\ board_moves' = IF make_move_ok(boards[ref], row, col, c)
                    THEN board_moves + 1 ELSE board_moves
  /\ UNCHANGED << current_color, color, iterations, root, nodes, pc, sim_board,
                  node, player_to_move, i, remaining, has_cb, ret, progress,
                  rng_draws, calls, plies, rng, seed, first_run,
                  new_size, raised,
                  state, ai_thinking, ai_done, ai_result_move,
                  live_workers, legacy, legacy_ret >>

\* OthelloBoard.copy() of the caller's board
BoardCopy ==
  /\ boards["sim"] = NoBoard
  /\ sim_board = "sim"
  /\ LET ref == copy("board")
     IN /\ boards' = [boards EXCEPT ![ref] = boards["board"]]
        /\ sim_board' = ref
  /\ UNCHANGED << current_color, color, iterations, root, nodes, pc, node,
                  player_to_move, i, remaining, has_cb, ret, progress,
                  rng_draws, calls, plies, board_moves,
                  move_ok, rng, seed, first_run,
                  new_size, raised,
                  state, ai_thinking, ai_done, ai_result_move,
                  live_workers, legacy, legacy_ret >>

BoardInputs == {"original", "copy"} \X Rows \X Rows \X {BLACK, WHITE}

NextBoard ==
  \/ \E a \in BoardInputs : BoardMakeMove(a[1], a[2], a[3], a[4])
  \/ BoardCopy

SpecBoard == InitBoard /\ [][NextBoard]_vars

\* ------------------------------------------------- properties of the board
\* the board objects that exist
BoardsPresent == { ref \in {"board", "sim"} : boards[ref] # NoBoard }

\* (r, c) is empty and, in direction k, a run of n opposing discs starting
\* next to it is immediately followed by a disc of `c0`
BracketsIn(b, r, c, c0, k, n) ==
  LET dr == DIRECTIONS[k][1]
      dc == DIRECTIONS[k][2]
  IN /\ b[r][c] = EMPTY
     /\ in_bounds(r + (n + 1) * dr, c + (n + 1) * dc)
     /\ \A j \in 1 .. n : b[r + j * dr][c + j * dc] = -c0
     /\ b[r + (n + 1) * dr][c + (n + 1) * dc] = c0

Bracketed(b, r, c, c0) ==
  \E k \in 1 .. Len(DIRECTIONS) : \E n \in 1 .. (Size - 2) :
    BracketsIn(b, r, c, c0, k, n)

\* C11: for every board and color, get_valid_moves holds exactly the empty
\* cells from which, in at least one of the 8 directions, a run of one or
\* more opposing discs is immediately followed by a disc of the color (no
\* gap, no edge first); so it never holds an occupied cell
C11_ValidMovesAreBracketedEmptyCells ==
  \A ref \in BoardsPresent : \A c0 \in {BLACK, WHITE} :
    SeqToSet(get_valid_moves(boards[ref], c0)) =
      { m \in AllMoves : Bracketed(boards[ref], m[1], m[2], c0) }

\* a board reached by make_move calls on which a color has a move that
\* brackets a run of two discs, and an empty cell that touches an opposing
\* disc without bracketing anything
C11_Witness ==
  /\ board_moves >= 2
  /\ \E ref \in BoardsPresent : \E c0 \in {BLACK, WHITE} :
       LET b == boards[ref] IN
       /\ \E m \in SeqToSet(get_valid_moves(b, c0)) :
            \E k \in 1 .. Len(DIRECTIONS) : BracketsIn(b, m[1], m[2], c0, k, 2)
       /\ \E m \in AllMoves : \E k \in 1 .. Len(DIRECTIONS) :
            LET r == m[1] + DIRECTIONS[k][1]
                c == m[2] + DIRECTIONS[k][2]
            IN /\ b[m[1]][m[2]] = EMPTY
               /\ in_bounds(r, c)
               /\ b[r][c] = -c0
               /\ ~is_valid_move(b, m[1], m[2], c0)

\* no direction yields a flip from (row, col) for color c0
NoFlipInAnyDirection(b, row, col, c0) ==
  \A k \in 1 .. Len(DIRECTIONS) :
    discs_to_flip_in_direction(b, row, col, c0,
                               DIRECTIONS[k][1], DIRECTIONS[k][2]) = <<>>

\* C12: on every board, for every cell and color: make_move on an occupied
\* cell, or on an empty cell for which no direction yields a flip, returns
\* False and leaves every cell of the board unchanged; make_move returns
\* True exactly when the cell is in get_valid_moves of the color
C12_MakeMoveFailsWithoutChange ==
  \A ref \in BoardsPresent : \A c0 \in {BLACK, WHITE} :
    LET b == boards[ref] IN
    /\ { m \in AllMoves : make_move_ok(b, m[1], m[2], c0) } =
         SeqToSet(get_valid_moves(b, c0))
    /\ \A m \in AllMoves :
         (b[m[1]][m[2]] # EMPTY \/ NoFlipInAnyDirection(b, m[1], m[2], c0))
           => /\ ~make_move_ok(b, m[1], m[2], c0)
              /\ make_move(b, m[1], m[2], c0) = b

\* a make_move call has just returned False, after earlier calls placed discs
C12_Witness ==
  /\ board_moves >= 2
  /\ ~move_ok
  /\ \E ref \in BoardsPresent : \E c0 \in {BLACK, WHITE} :
       /\ get_valid_moves(boards[ref], c0) # <<>>
       /\ \E m \in AllMoves : /\ boards[ref][m[1]][m[2]] = EMPTY
                              /\ NoFlipInAnyDirection(boards[ref], m[1], m[2], c0)

CountDiscs(b) == CountCells(b, BLACK) + CountCells(b, WHITE)

\* C13: on every board, a successful make_move(row, col, color) increases
\* the number of discs by exactly 1 (so by no more than 1 + the number of
\* flips), and every cell whose color it changes, other than (row, col),
\* held the opposing color before the move
C13_MoveAddsOneDiscFlipsOpponent ==
  \A ref \in BoardsPresent : \A c0 \in {BLACK, WHITE} : \A m \in AllMoves :
    LET b == boards[ref] IN
    make_move_ok(b, m[1], m[2], c0) =>
      LET b2 == make_move(b, m[1], m[2], c0) IN
      /\ CountDiscs(b2) = CountDiscs(b) + 1
      /\ CountDiscs(b2) <= CountDiscs(b) + 1 + Len(discs_to_flip(b, m[1], m[2], c0))
      /\ \A x \in AllMoves :
           (x # m /\ b2[x[1]][x[2]] # b[x[1]][x[2]]) => b[x[1]][x[2]] = -c0

\* a make_move call has just succeeded on a board where some move flips
\* discs in two directions at once
C13_Witness ==
  /\ move_ok
  /\ board_moves >= 2
  /\ \E ref \in BoardsPresent : \E c0 \in {BLACK, WHITE} : \E m \in AllMoves :
       \E k1, k2 \in 1 .. Len(DIRECTIONS) :
         /\ k1 # k2
         /\ \E n \in 1 .. (Size - 2) : BracketsIn(boards[ref], m[1], m[2], c0, k1, n)
         /\ \E n \in 1 .. (Size - 2) : BracketsIn(boards[ref], m[1], m[2], c0, k2, n)

\* the cells of the opposing runs bracketed from (r, c) by color c0
BracketedRunCells(b, r, c, c0) ==
  { x \in AllMoves :
      \E k \in 1 .. Len(DIRECTIONS) : \E n \in 1 .. (Size - 2) :
        /\ BracketsIn(b, r, c, c0, k, n)
        /\ \E j \in 1 .. n :
             x = << r + j * DIRECTIONS[k][1], c + j * DIRECTIONS[k][2] >> }

\* C14: on every board, a successful make_move(row, col, color) sets
\* (row, col) and exactly the cells of discs_to_flip(row, col, color) of the
\* board before the move to the color and leaves every other cell unchanged;
\* those cells are the opposing runs bracketed from (row, col); and no
\* make_move, successful or not, makes a cell EMPTY again
C14_MoveSetsExactlyTheFlips ==
  \A ref \in BoardsPresent : \A c0 \in {BLACK, WHITE} : \A m \in AllMoves :
    LET b == boards[ref]
        b2 == make_move(b, m[1], m[2], c0)
        flips == SeqToSet(discs_to_flip(b, m[1], m[2], c0))
    IN /\ \A x \in AllMoves : b[x[1]][x[2]] # EMPTY => b2[x[1]][x[2]] # EMPTY
       /\ make_move_ok(b, m[1], m[2], c0) =>
            /\ flips = BracketedRunCells(b, m[1], m[2], c0)
            /\ \A x \in AllMoves :
                 b2[x[1]][x[2]] = IF x = m \/ x \in flips THEN c0
                                  ELSE b[x[1]][x[2]]

\* a make_move call has just succeeded on a board where some move brackets
\* a run of two discs, and cells away from that move keep their discs
C14_Witness ==
  /\ move_ok
  /\ board_moves >= 1
  /\ \E ref \in BoardsPresent : \E c0 \in {BLACK, WHITE} : \E m \in AllMoves :
       /\ \E k \in 1 .. Len(DIRECTIONS) : BracketsIn(boards[ref], m[1], m[2], c0, k, 2)
       /\ \E x \in AllMoves :
            /\ boards[ref][x[1]][x[2]] = -c0
            /\ x \notin BracketedRunCells(boards[ref], m[1], m[2], c0)

HasMove(b, c0) == \E m \in AllMoves : Bracketed(b, m[1], m[2], c0)

\* one color has no valid move and the other has at least one
OneSidedPass(b) ==
  \/ (~HasMove(b, BLACK) /\ HasMove(b, WHITE))
  \/ (HasMove(b, BLACK) /\ ~HasMove(b, WHITE))

\* C15: on every board, is_game_over() is true iff the board has no empty
\* cell or neither BLACK nor WHITE has a valid move; a board with no empty
\* cell is terminal, and a board where one color has no valid move and the
\* other has one is not terminal
C15_GameOverIffFullOrNoMoves ==
  \A ref \in BoardsPresent :
    LET b == boards[ref] IN
    /\ is_game_over(b) <=>
         (CountCells(b, EMPTY) = 0 \/ (~HasMove(b, BLACK) /\ ~HasMove(b, WHITE)))
    /\ CountCells(b, EMPTY) = 0 => is_game_over(b)
    /\ OneSidedPass(b) => ~is_game_over(b)

\* after make_move calls, one board object is full and the other is a
\* position where exactly one color must pass
C15_Witness ==
  /\ board_moves >= 1
  /\ \E r1, r2 \in BoardsPresent :
       /\ CountCells(boards[r1], EMPTY) = 0
       /\ OneSidedPass(boards[r2])
       /\ CountCells(boards[r2], EMPTY) > 0

\* =====================================================================
\* A rollout on its own: _rollout(board, current_player) called on a board
\* reached by legal play, with either color to move.

\* the positions the rollout is started on: the initial position, where
\* BLACK is on turn, and positions late in a game with either color to move
RolloutStarts ==
  { [board |-> InitialBoard, player |-> BLACK] }
  \cup { [board |-> s.board, player |-> p] : s \in StartStates, p \in {BLACK, WHITE} }

InitRollout ==
  /\ \E s \in RolloutStarts :
       /\ boards = [board |-> s.board, sim |-> s.board]
       /\ player_to_move = s.player
  /\ pc = "rollout"
  /\ sim_board = "sim"
  /\ plies = 0
  /\ current_color = BLACK
  /\ color = BLACK
  /\ iterations = 0
  /\ root = 0
  /\ nodes = <<>>
  /\ node = 0
  /\ i = 0
  /\ remaining = 0
  /\ has_cb = FALSE
  /\ ret = None
  /\ progress = <<>>
  /\ rng_draws = 0
  /\ calls = 0
  /\ board_moves = 0
  /\ move_ok = FALSE
  /\ seed = NoSeed
  /\ rng = Random(seed)
  /\ first_run = NoRun
  /\ new_size = Size
  /\ state = "game"
  /\ ai_thinking = FALSE
  /\ ai_done = FALSE
  /\ ai_result_move = None
  /\ live_workers = 0
  /\ legacy = NoLegacy
  /\ legacy_ret = NoCall
  /\ raised = NoException

SpecRollout == InitRollout /\ [][RolloutPly]_vars

\* the board the rollout works on, and the one it was started on
RolloutBoard == boards[sim_board]
RolloutStartBoard == boards["board"]

\* C16 as stated: a rollout never makes more than size * size passes of its
\* loop (plies)
C16_RolloutWithinSizeSquaredPlies == plies <= Size * Size

\* C16, amended: a rollout makes at most 2 * e plies, e the number of empty
\* cells of the board it was started on; every ply either places exactly
\* one disc (one empty cell fewer) or is a pass that changes no cell; a pass
\* leaves the other color with a valid move, so two passes never occur in a
\* row; and the color to move alternates with every ply
C16_RolloutPliesBounded ==
  /\ [](plies <= 2 * CountCells(RolloutStartBoard, EMPTY))
  /\ [][RolloutPly =>
         /\ \/ CountCells(RolloutBoard', EMPTY) = CountCells(RolloutBoard, EMPTY) - 1
            \/ RolloutBoard' = RolloutBoard
         /\ RolloutBoard' = RolloutBoard =>
              /\ get_valid_moves(RolloutBoard, player_to_move) = <<>>
              /\ get_valid_moves(RolloutBoard', player_to_move') # <<>>
         /\ player_to_move' = -player_to_move
         /\ RolloutStartBoard' = RolloutStartBoard]_vars

\* a rollout started on the initial board has reached a terminal board
\* after more than size * size plies
C16_Witness ==
  /\ pc = "rollout"
  /\ RolloutStartBoard = InitialBoard
  /\ is_game_over(RolloutBoard)
  /\ plies > Size * Size

\* ------------------------------------------- properties of the search
\* C17: the reward a rollout returns, seen in what backpropagation adds to
\* the node the rollout started at, is 1.0 (2 halves) if the engine's own
\* color has strictly more discs than the other color on the final board,
\* 0.0 if strictly fewer, 0.5 (1 half) if equal; the color to move at that
\* node and the depth of the node do not enter
C17_RewardFromEngineColor ==
  [][IterFinish =>
       LET own == CountCells(boards[sim_board], color)
           other == CountCells(boards[sim_board], -color)
       IN nodes'[node].wins - nodes[node].wins =
            IF own > other THEN 2 ELSE IF own < other THEN 0 ELSE 1]_vars

\* a rollout started at a node two levels below the root, where the engine's
\* own color is to move, has ended with more discs for the engine's color,
\* while a node of the tree already holds a reward that was not a win
C17_Witness ==
  /\ pc = "rollout"
  /\ is_game_over(boards[sim_board])
  /\ node # 0
  /\ nodes[node].parent # 0
  /\ nodes[node].parent # root
  /\ nodes[node].player_to_move = color
  /\ CountCells(boards[sim_board], color) > CountCells(boards[sim_board], -color)
  /\ \E n \in 1 .. Len(nodes) :
       nodes[n].visits >= 1 /\ nodes[n].wins < 2 * nodes[n].visits

\* the node n and its ancestors up to the root r, found through the lists
\* of children (a former root, cut off by re-rooting, is above r and not
\* part of the tree)
PathToRoot(ns, r, n) ==
  { a \in 1 .. Len(ns) : /\ a = n \/ n \in Descendants(ns, a)
                         /\ a = r \/ a \in Descendants(ns, r) }

\* C18: backpropagation from a node with reward x adds exactly 1 to the
\* visit count and exactly x to the cumulative reward of that node and of
\* every ancestor up to and including the current root, and changes nothing
\* else in any node
C18_BackpropagationUpdatesPath ==
  [][IterFinish =>
       LET x == Reward(boards[sim_board], color)
           path == PathToRoot(nodes, root, node)
       IN /\ root \in path
          /\ Len(nodes') = Len(nodes)
          /\ \A a \in 1 .. Len(nodes) :
               IF a \in path
               THEN nodes'[a] = [nodes[a] EXCEPT !.visits = @ + 1, !.wins = @ + x]
               ELSE nodes'[a] = nodes[a]]_vars

\* a rollout from a node two levels below the root has ended with a win or a
\* loss, a visited node lies off the path, earlier iterations have already
\* been backpropagated, and the root is a re-rooted child of a former root
C18_Witness ==
  /\ pc = "rollout"
  /\ is_game_over(boards[sim_board])
  /\ node # 0
  /\ nodes[node].parent # 0
  /\ nodes[node].parent # root
  /\ Reward(boards[sim_board], color) # 1
  /\ nodes[root].visits >= 2
  /\ \E n \in 1 .. Len(nodes) :
       /\ n \notin PathToRoot(nodes, root, node)
       /\ nodes[n].visits >= 1
  /\ \E a \in 1 .. Len(nodes) : root \in Descendants(nodes, a)

\* C19: copy() returns a board with the same size and the same value in
\* every cell and leaves the original as it was; no later make_move on the
\* copy changes a cell of the original, and no make_move on the original
\* changes a cell of the copy
C19_CopyIsIndependent ==
  [][/\ BoardCopy =>
          /\ boards'[sim_board'] = boards["board"]
          /\ boards'["board"] = boards["board"]
     /\ board_moves' = board_moves + 1 =>
          \A a \in BoardInputs :
            ( /\ boards[BoardRef(a[1])] # NoBoard
              /\ make_move_ok(boards[BoardRef(a[1])], a[2], a[3], a[4])
              /\ BoardMakeMove(a[1], a[2], a[3], a[4]) )
            => /\ a[1] = "copy" => boards'["board"] = boards["board"]
               /\ a[1] = "original" => boards'[sim_board] = boards[sim_board]]_vars

\* a copy was taken and make_move has since succeeded on the original and on
\* the copy: each holds a disc where the other has an empty cell
C19_Witness ==
  /\ boards[sim_board] # NoBoard
  /\ board_moves >= 2
  /\ \E x, y \in AllMoves :
       /\ boards["board"][x[1]][x[2]] # EMPTY
       /\ boards[sim_board][x[1]][x[2]] = EMPTY
       /\ boards[sim_board][y[1]][y[2]] # EMPTY
       /\ boards["board"][y[1]][y[2]] = EMPTY

\* (row, col) lexicographic order, strict
RowMajorLT(m1, m2) == m1[1] < m2[1] \/ (m1[1] = m2[1] /\ m1[2] < m2[2])

\* C20: for every board and color, the list get_valid_moves returns is
\* strictly increasing in (row, col) lexicographic order (row-major), and so
\* holds no move twice
C20_ValidMovesRowMajor ==
  \A ref \in BoardsPresent : \A c0 \in {BLACK, WHITE} :
    LET q == get_valid_moves(boards[ref], c0) IN
    /\ \A k \in 1 .. (Len(q) - 1) : RowMajorLT(q[k], q[k + 1])
    /\ Cardinality(SeqToSet(q)) = Len(q)

\* after make_move calls, a color has at least three valid moves, two of
\* them in one row and one in another row
C20_Witness ==
  /\ board_moves >= 1
  /\ \E ref \in BoardsPresent : \E c0 \in {BLACK, WHITE} :
       LET q == get_valid_moves(boards[ref], c0) IN
       /\ Len(q) >= 3
       /\ \E j, k \in 1 .. Len(q) : j # k /\ q[j][1] = q[k][1]
       /\ \E j, k \in 1 .. Len(q) : q[j][1] # q[k][1]

\* =====================================================================
\* Two engines: a fresh engine with a seed runs choose_move once; then a
\* second fresh engine with the same color, seed and budget runs it on the
\* same board.

InitDet ==
  /\ \E s \in StartStates :
       /\ boards = [board |-> s.board, sim |-> NoBoard]
       /\ current_color = s.current_color
  /\ color \in {BLACK, WHITE}
  /\ iterations \in 1 .. MaxIterations
  /\ seed \in Seeds
  /\ rng = Random(seed)
  /\ first_run = NoRun
  /\ new_size = Size
  /\ state = "game"
  /\ ai_thinking = FALSE
  /\ ai_done = FALSE
  /\ ai_result_move = None
  /\ live_workers = 0
  /\ legacy = NoLegacy
  /\ legacy_ret = NoCall
  /\ raised = NoException
  /\ root = 0
  /\ nodes = <<>>
  /\ pc = "idle"
  /\ sim_board = "sim"
  /\ node = 0
  /\ player_to_move = color
  /\ i = 0
  /\ remaining = 0
  /\ has_cb = FALSE
  /\ ret = None
  /\ progress = <<>>
  /\ rng_draws = 0
  /\ calls = 0
  /\ plies = 0
  /\ board_moves = 0
  /\ move_ok = FALSE

\* the first call has returned: its tree and move are kept, and a new
\* MCTSPlayer(color, iterations, seed=seed) takes the place of the engine
SecondEngine ==
  /\ pc = "done"
  /\ first_run = NoRun
  /\ first_run' = << [root |-> root, nodes |-> nodes, ret |-> ret] >>
  /\ rng' = Random(seed)
  /\ root' = 0
  /\ nodes' = <<>>
  /\ pc' = "idle"
  /\ boards' = [boards EXCEPT !["sim"] = NoBoard]
  /\ ret' = None
  /\ progress' = <<>>
  /\ rng_draws' = 0
  /\ i' = 0
  /\ remaining' = 0
  /\ has_cb' = FALSE
  /\ player_to_move' = color
  /\ plies' = 0
  /\ calls' = 0
  /\ UNCHANGED << current_color, color, iterations, sim_board, node,
                  board_moves, move_ok, seed, new_size, raised,
                  state, ai_thinking, ai_done, ai_result_move,
                  live_workers, legacy, legacy_ret >>

NextDet ==
  \/ \E cb \in BOOLEAN : ChooseMove(cb)
  \/ IterStart
  \/ RolloutPly
  \/ IterFinish
  \/ SecondEngine

SpecDet == InitDet /\ [][NextDet]_vars

\* C21: when the second of two fresh engines with the same color, seed,
\* budget and board has returned, its tree is identical to the tree of the
\* first, node by node, and it returns the same move
C21_SameSeedSameTreeAndMove ==
  (pc = "done" /\ first_run # NoRun) =>
    /\ nodes = first_run[1].nodes
    /\ root = first_run[1].root
    /\ ret = first_run[1].ret

\* both runs have returned a move after a search that made several random
\* choices and built a tree of several nodes
C21_Witness ==
  /\ pc = "done"
  /\ first_run # NoRun
  /\ ret # None
  /\ Len(nodes) >= 4
  /\ rng_draws >= 4
  /\ Len(nodes[root].children) >= 2

\* the number of cells of value v among the cells number k and up (row-major)
RECURSIVE TallyFrom(_, _, _)
TallyFrom(b, v, k) ==
  IF k >= Size * Size THEN 0
  ELSE (IF b[k \div Size][k % Size] = v THEN 1 ELSE 0) + TallyFrom(b, v, k + 1)

\* C22: on every board, get_score() is (number of BLACK cells, number of
\* WHITE cells); empty cells are in neither count, so the two counts and the
\* number of empty cells add up to size * size
C22_ScoreCountsDiscs ==
  \A ref \in BoardsPresent :
    LET b == boards[ref] IN
    /\ get_score(b) = << TallyFrom(b, BLACK, 0), TallyFrom(b, WHITE, 0) >>
    /\ get_score(b)[1] + get_score(b)[2] + TallyFrom(b, EMPTY, 0) = Size * Size

\* after make_move calls, a board holds empty cells and more discs of one
\* color than of the other
C22_Witness ==
  /\ board_moves >= 1
  /\ \E ref \in BoardsPresent :
       /\ TallyFrom(boards[ref], EMPTY, 0) >= 2
       /\ get_score(boards[ref])[1] > get_score(boards[ref])[2]
       /\ get_score(boards[ref])[2] >= 1

\* =====================================================================
\* Construction: a caller asks for a board of some size.

MaxSizeTried == 40

InitNew ==
  /\ new_size \in (0 - MaxSizeTried) .. MaxSizeTried
  /\ state = "game"
  /\ ai_thinking = FALSE
  /\ ai_done = FALSE
  /\ ai_result_move = None
  /\ live_workers = 0
  /\ legacy = NoLegacy
  /\ legacy_ret = NoCall
  /\ raised = NoException
  /\ boards = [board |-> NoBoard, sim |-> NoBoard]
  /\ current_color = BLACK
  /\ color = BLACK
  /\ iterations = 0
  /\ seed = NoSeed
  /\ rng = Random(seed)
  /\ first_run = NoRun
  /\ root = 0
  /\ nodes = <<>>
  /\ pc = "idle"
  /\ sim_board = "sim"
  /\ node = 0
  /\ player_to_move = BLACK
  /\ i = 0
  /\ remaining = 0
  /\ has_cb = FALSE
  /\ ret = None
  /\ progress = <<>>
  /\ rng_draws = 0
  /\ calls = 0
  /\ plies = 0
  /\ board_moves = 0
  /\ move_ok = FALSE

\* board = OthelloBoard(new_size)
Construct ==
  /\ boards["board"] = NoBoard
  /\ raised = NoException
  /\ LET res == OthelloBoard(new_size) IN
     /\ raised' = res.raised
     /\ boards' = IF res.raised = NoException
                  THEN [boards EXCEPT !["board"] = res.board]
                  ELSE boards
  /\ UNCHANGED << current_color, color, iterations, root, nodes, pc, sim_board,
                  node, player_to_move, i, remaining, has_cb, ret, progress,
                  rng_draws, calls, plies, board_moves, move_ok, rng, seed,
                  first_run, new_size,
                  state, ai_thinking, ai_done, ai_result_move,
                  live_workers, legacy, legacy_ret >>

SpecNew == InitNew /\ [][Construct]_vars

\* the 2x2 center block of a grid of size n
CenterBlock(n) == { n \div 2 - 1, n \div 2 } \X { n \div 2 - 1, n \div 2 }

\* C23: a new board of size 4, 6 or 8 is a size x size grid that holds
\* exactly four discs, in the 2x2 center block, two of each color with
\* equal colors on diagonally opposite cells, and is empty elsewhere; on
\* the new 4x4 board BLACK, who moves first, has exactly 4 valid moves
C23_NewBoardHasCenterBlock ==
  (boards["board"] # NoBoard /\ new_size \in {4, 6, 8}) =>
    LET g == boards["board"]
        n == new_size
        lo == n \div 2 - 1
        hi == n \div 2
    IN /\ DOMAIN g = 0 .. (n - 1)
       /\ \A r \in DOMAIN g : DOMAIN g[r] = 0 .. (n - 1)
       /\ { x \in (0 .. (n - 1)) \X (0 .. (n - 1)) : g[x[1]][x[2]] # EMPTY }
            = CenterBlock(n)
       /\ g[lo][lo] = g[hi][hi]
       /\ g[lo][hi] = g[hi][lo]
       /\ { g[lo][lo], g[lo][hi] } = {BLACK, WHITE}
       /\ n = Size => Len(get_valid_moves(g, BLACK)) = 4

\* a board of size 4 has been constructed
C23_Witness ==
  /\ boards["board"] # NoBoard
  /\ raised = NoException
  /\ new_size = 4
  /\ boards["board"] = InitialBoard

\* C24: constructing a board with a size other than 4, 6 or 8 raises
\* ValueError and yields no board object; with 4, 6 or 8 it raises nothing
\* and yields a board
C24_BadSizeRaisesValueError ==
  [][Construct =>
       IF new_size \in {4, 6, 8}
       THEN raised' = NoException /\ boards'["board"] # NoBoard
       ELSE raised' = ValueError /\ boards' = boards]_vars

\* the constructor has raised ValueError for an even size above 8, and
\* there is no board
C24_Witness ==
  /\ raised = ValueError
  /\ new_size > 8
  /\ new_size % 2 = 0
  /\ boards["board"] = NoBoard

\* =====================================================================
\* The tree node on its own: a caller builds a node with children through
\* add_child, credits rewards through update, and asks uct_select_child.

MaxNodeVisits == 2
MaxChildren == 2

InitNode ==
  /\ nodes = << MCTSNode(0, None, BLACK,
                       SubSeq(get_valid_moves(InitialBoard, BLACK), 1, MaxChildren)) >>
  /\ root = 1
  /\ node = 0
  /\ boards = [board |-> InitialBoard, sim |-> NoBoard]
  /\ current_color = BLACK
  /\ color = BLACK
  /\ iterations = 0
  /\ seed = NoSeed
  /\ rng = Random(seed)
  /\ first_run = NoRun
  /\ new_size = Size
  /\ state = "game"
  /\ ai_thinking = FALSE
  /\ ai_done = FALSE
  /\ ai_result_move = None
  /\ live_workers = 0
  /\ legacy = NoLegacy
  /\ legacy_ret = NoCall
  /\ raised = NoException
  /\ pc = "idle"
  /\ sim_board = "sim"
  /\ player_to_move = BLACK
  /\ i = 0
  /\ remaining = 0
  /\ has_cb = FALSE
  /\ ret = None
  /\ progress = <<>>
  /\ rng_draws = 0
  /\ calls = 0
  /\ plies = 0
  /\ board_moves = 0
  /\ move_ok = FALSE

NodeFrame ==
  UNCHANGED << boards, current_color, color, iterations, root, pc, sim_board,
               player_to_move, i, remaining, has_cb, ret, progress, rng_draws,
               calls, plies, board_moves, move_ok, rng, seed, first_run,
               new_size, raised,
                  state, ai_thinking, ai_done, ai_result_move,
                  live_workers, legacy, legacy_ret >>

\* root.add_child(move, player_to_move, untried_moves) for an untried move
NodeAddChild(k) ==
  /\ Len(nodes[root].children) < MaxChildren
  /\ k \in 1 .. Len(nodes[root].untried_moves)
  /\ nodes' = add_child(nodes, root, nodes[root].untried_moves[k], WHITE, <<>>)
  /\ node' = 0
  /\ NodeFrame

\* n.update(reward)
NodeUpdate(n, reward) ==
  /\ n \in 1 .. Len(nodes)
  /\ nodes[n].visits < MaxNodeVisits
  /\ nodes' = update(nodes, n, reward)
  /\ node' = 0
  /\ NodeFrame

\* node = root.uct_select_child(exploration_const); the assert wants a
\* child, math.log a positive visit count
NodeSelect ==
  /\ node = 0
  /\ nodes[root].children # <<>>
  /\ nodes[root].visits >= 1
  /\ node' = uct_select_child(nodes, root)
  /\ nodes' = nodes
  /\ NodeFrame

NextNode ==
  \/ \E k \in 1 .. MaxChildren : NodeAddChild(k)
  \/ \E n \in 1 .. (MaxChildren + 1) : \E reward \in {0, 1, 2} : NodeUpdate(n, reward)
  \/ NodeSelect

SpecNode == InitNode /\ [][NextNode]_vars

\* (cumulative reward / visits) + C * sqrt(2 * ln(parent visits) / child
\* visits) in millionths, for a reward w in halves, v > 0 visits of the child
\* and P visits of the parent
UctValue(w, v, P) ==
  (w * 500000) \div v + (exploration_const * SQRT_TERM[P][v]) \div 10

\* C25: uct_select_child returns a child of the node; when some child has
\* no visit the child returned has none (an infinite score, before every
\* visited child); otherwise no child has a larger value of (cumulative
\* reward / visits) + C * sqrt(2 * ln(parent visits) / child visits) than the
\* child returned
C25_SelectsMaximalUct ==
  [][NodeSelect =>
       LET ch == SeqToSet(nodes[root].children)
           P == nodes[root].visits
       IN /\ node' \in ch
          /\ IF \E d \in ch : nodes[d].visits = 0
             THEN nodes[node'].visits = 0
             ELSE \A d \in ch :
                    UctValue(nodes[d].wins, nodes[d].visits, P)
                      <= UctValue(nodes[node'].wins, nodes[node'].visits, P)]_vars

\* uct_select_child has returned the second child, which has no visit,
\* although the first child has won every one of its visits
C25_Witness ==
  /\ node # 0
  /\ Len(nodes[root].children) = 2
  /\ node = nodes[root].children[2]
  /\ nodes[node].visits = 0
  /\ nodes[nodes[root].children[1]].visits >= 2
  /\ nodes[nodes[root].children[1]].wins = 2 * nodes[nodes[root].children[1]].visits


\* the moves on the path from the root r down to the node n
RECURSIVE MovesFromRoot(_, _, _)
MovesFromRoot(ns, r, n) ==
  IF n = r \/ n = 0 THEN <<>>
  ELSE Append(MovesFromRoot(ns, r, ns[n].parent), ns[n].move)

\* every move of mv, played in turn on the grid b starting with color p, is
\* one make_move accepts
RECURSIVE LegalReplay(_, _, _)
LegalReplay(b, mv, p) ==
  IF mv = <<>> THEN TRUE
  ELSE /\ make_move_ok(b, Head(mv)[1], Head(mv)[2], p)
       /\ LegalReplay(make_move(b, Head(mv)[1], Head(mv)[2], p), Tail(mv),
                      opponent(p))

\* C26: when selection and expansion are done, every move on the path from
\* the root to the node reached was legal where make_move applied it, on
\* the caller's board and starting with the engine's color
C26_SelectionMovesLegal ==
  (pc = "rollout" /\ plies = 0)
    => LegalReplay(CallerBoard, MovesFromRoot(nodes, root, node), color)


\* =====================================================================
\* gui.py: a game of player against the MCTS engine. The main loop handles
\* the clicks and calls update_ai once per frame; the worker thread runs
\* choose_move on a copy of the live board, which no click changes while
\* the engine is on turn.

\* a check_game_state that leaves a color without a valid move on turn
check_game_state_noskip(b, cc) ==
  IF is_game_over(b) THEN [current_color |-> cc, state |-> "game_over"]
  ELSE [current_color |-> cc, state |-> "game"]

\* check_game_state with the color cc on turn on the grid b: the color on
\* turn and the state afterwards
check_game_state(b, cc) ==
  IF is_game_over(b) THEN [current_color |-> cc, state |-> "game_over"]
  ELSE IF get_valid_moves(b, cc) = <<>>
       THEN [current_color |-> opponent(cc),
             state |-> IF get_valid_moves(b, opponent(cc)) = <<>>
                       THEN "game_over" ELSE "game"]
       ELSE [current_color |-> cc, state |-> "game"]

\* on_move_made
on_move_made(b, cc) == check_game_state(b, opponent(cc))

\* start_game in mode "pva" with ai_type "mcts": the human has picked a
\* color, and the unseeded generator of the engine has one of the streams of
\* Seeds
InitGui ==
  /\ boards = [board |-> InitialBoard, sim |-> NoBoard]
  /\ state = "game"
  /\ ai_thinking = FALSE
  /\ ai_done = FALSE
  /\ ai_result_move = None
  /\ live_workers = 0
  /\ legacy = NoLegacy
  /\ legacy_ret = NoCall
  /\ current_color = BLACK
  /\ color \in {BLACK, WHITE}
  /\ iterations \in 1 .. MaxIterations
  /\ seed \in Seeds
  /\ rng = Random(seed)
  /\ first_run = NoRun
  /\ new_size = Size
  /\ raised = NoException
  /\ root = 0
  /\ nodes = <<>>
  /\ pc = "idle"
  /\ sim_board = "sim"
  /\ node = 0
  /\ player_to_move = color
  /\ i = 0
  /\ remaining = 0
  /\ has_cb = FALSE
  /\ ret = None
  /\ progress = <<>>
  /\ rng_draws = 0
  /\ calls = 0
  /\ plies = 0
  /\ board_moves = 0
  /\ move_ok = FALSE

EngineFrame ==
  UNCHANGED << color, iterations, root, nodes, pc, sim_board, node,
               player_to_move, i, remaining, has_cb, ret, progress, rng_draws,
               calls, plies, board_moves, move_ok, rng, seed, first_run,
               new_size, raised, legacy, legacy_ret >>

\* a MOUSEBUTTONDOWN on the cell (row, col) while the AI is not thinking
handle_game_click(row, col) ==
  /\ state = "game"
  /\ ~ai_thinking
  /\ current_color # color
  /\ make_move_ok(boards["board"], row, col, current_color)
  /\ LET b2 == make_move(boards["board"], row, col, current_color)
         g == on_move_made(b2, current_color)
     IN /\ boards' = [boards EXCEPT !["board"] = b2]
        /\ current_color' = g.current_color
        /\ state' = g.state
  /\ UNCHANGED << ai_thinking, ai_done, ai_result_move, live_workers >>
  /\ EngineFrame

\* update_ai(dt) that resets the thinking state without waiting for ai_done
update_ai_eager ==
  /\ state = "game"
  /\ current_color = color
  /\ IF ~ai_thinking
     THEN IF get_valid_moves(boards["board"], color) = <<>>
          THEN LET g == check_game_state(boards["board"], opponent(color))
               IN /\ current_color' = g.current_color
                  /\ state' = g.state
                  /\ UNCHANGED << boards, ai_thinking, ai_done, ai_result_move,
                                  live_workers >>
          ELSE /\ ai_thinking' = TRUE
               /\ ai_done' = FALSE
               /\ ai_result_move' = None
               /\ live_workers' = live_workers + 1
               /\ UNCHANGED << boards, current_color, state >>
     ELSE /\ LET move == ai_result_move
                 b == boards["board"]
             IN IF move # None /\ make_move_ok(b, move[1], move[2], current_color)
                THEN LET b2 == make_move(b, move[1], move[2], current_color)
                         g == on_move_made(b2, current_color)
                     IN /\ boards' = [boards EXCEPT !["board"] = b2]
                        /\ current_color' = g.current_color
                        /\ state' = g.state
                ELSE UNCHANGED << boards, current_color, state >>
          /\ ai_thinking' = FALSE
          /\ ai_result_move' = None
          /\ ai_done' = FALSE
          /\ live_workers' = live_workers
  /\ EngineFrame

\* update_ai(dt) on the AI's turn: a pass, start_ai_thinking, or the pick-up
\* of the finished thread's move
update_ai ==
  /\ state = "game"
  /\ current_color = color
  /\ IF ~ai_thinking
     THEN IF get_valid_moves(boards["board"], color) = <<>>
          THEN LET g == check_game_state(boards["board"], opponent(color))
               IN /\ current_color' = g.current_color
                  /\ state' = g.state
                  /\ UNCHANGED << boards, ai_thinking, ai_done, ai_result_move,
                                  live_workers >>
          ELSE /\ ai_thinking' = TRUE
               /\ ai_done' = FALSE
               /\ ai_result_move' = None
               /\ live_workers' = live_workers + 1
               /\ UNCHANGED << boards, current_color, state >>
     ELSE /\ ai_done
          /\ LET move == ai_result_move
                 b == boards["board"]
             IN IF move # None /\ make_move_ok(b, move[1], move[2], current_color)
                THEN LET b2 == make_move(b, move[1], move[2], current_color)
                         g == on_move_made(b2, current_color)
                     IN /\ boards' = [boards EXCEPT !["board"] = b2]
                        /\ current_color' = g.current_color
                        /\ state' = g.state
                ELSE UNCHANGED << boards, current_color, state >>
          /\ ai_thinking' = FALSE
          /\ ai_result_move' = None
          /\ ai_done' = FALSE
          /\ live_workers' = live_workers
  /\ EngineFrame

\* worker: the call self.ai_player.choose_move(board_copy, progress_cb)
worker_call ==
  /\ live_workers > 0
  /\ pc = "idle"
  /\ choose_move(TRUE)
  /\ calls' = calls

\* worker: choose_move has returned; the move and then the flag are stored
worker_return ==
  /\ live_workers > 0
  /\ pc = "done"
  /\ live_workers' = live_workers - 1
  /\ ai_result_move' = ret
  /\ ai_done' = TRUE
  /\ pc' = "idle"
  /\ boards' = [boards EXCEPT !["sim"] = NoBoard]
  /\ ret' = None
  /\ progress' = <<>>
  /\ rng_draws' = 0
  /\ i' = 0
  /\ remaining' = 0
  /\ has_cb' = FALSE
  /\ player_to_move' = color
  /\ plies' = 0
  /\ UNCHANGED << current_color, color, iterations, root, nodes, sim_board,
                  node, calls, board_moves, move_ok, rng, seed, first_run,
                  new_size, raised, state, ai_thinking, legacy, legacy_ret >>

worker ==
  \/ worker_call
  \/ IterStart
  \/ RolloutPly
  \/ IterFinish
  \/ worker_return

NextGui ==
  \/ \E row \in Rows, col \in Rows : handle_game_click(row, col)
  \/ update_ai
  \/ worker_call
  \/ IterStart
  \/ RolloutPly
  \/ IterFinish
  \/ worker_return

SpecGui == InitGui /\ [][NextGui]_vars

\* a worker thread has been started and has not yet stored its move; in every
\* such state its next step is enabled
worker_running == live_workers > 0

\* weak fairness of the worker thread, with worker_running for ENABLED
\* <<worker>>_vars: a worker that runs for ever takes steps for ever
FairWorker == <>[]worker_running => []<><<worker>>_vars

\* the main loop keeps calling update_ai and the worker thread is scheduled
SpecGuiFair == SpecGui /\ WF_vars(update_ai) /\ FairWorker

AiOnTurn == state = "game" /\ current_color = color

\* C27: whenever the AI is on turn in state "game", eventually the turn has
\* passed on or the game is over (the discs of a board are finitely many,
\* so an AI that completes every turn cannot stay on turn forever)
C27_AiTurnCompletes == AiOnTurn ~> ~AiOnTurn


\* =====================================================================
\* A driver that reports every move: the color on turn plays a valid move,
\* the engine is notified of it, and of the pass (with None) when the other
\* color cannot answer; choose_move is called on the engine's turns.

\* notify_move_played(move, player): the root and the nodes afterwards
Notified(ns, r, move) ==
  LET child == find_child(ns, r, move)
  IN IF child # 0
     THEN [root |-> child, nodes |-> detach(ns, child)]
     ELSE [root |-> 0, nodes |-> <<>>]

MoveAndNotify(m) ==
  /\ Idle
  /\ make_move_ok(boards["board"], m[1], m[2], current_color)
  /\ LET b2 == make_move(boards["board"], m[1], m[2], current_color)
         n1 == Notified(nodes, root, m)
         pass == /\ ~is_game_over(b2)
                 /\ get_valid_moves(b2, opponent(current_color)) = <<>>
         n2 == IF pass THEN Notified(n1.nodes, n1.root, None) ELSE n1
     IN /\ boards' = [boards EXCEPT !["board"] = b2]
        /\ current_color' = NextColor(b2, current_color)
        /\ root' = n2.root
        /\ nodes' = n2.nodes
  /\ pc' = "notified"
  /\ UNCHANGED << color, iterations, sim_board, node, player_to_move, i,
                  remaining, has_cb, ret, progress, rng_draws, calls, plies,
                  board_moves, move_ok, rng, seed, first_run, new_size, raised,
                  state, ai_thinking, ai_done, ai_result_move,
                  live_workers, legacy, legacy_ret >>

\* choose_move(board, cb) when the engine's color is on turn
TurnChooseMove(cb) ==
  /\ current_color = color
  /\ ChooseMove(cb)

NextReuse ==
  \/ \E m \in AllMoves : MoveAndNotify(m)
  \/ \E cb \in BOOLEAN : TurnChooseMove(cb)
  \/ IterStart
  \/ RolloutPly
  \/ IterFinish
  \/ ConsumeResult

SpecReuse == Init /\ [][NextReuse]_vars

NodeMoves(n) ==
  { nodes[c].move : c \in SeqToSet(nodes[n].children) }
    \cup SeqToSet(nodes[n].untried_moves)

\* C28: with every move and every pass notified, a root retained on the
\* engine's turn stands for the caller's board: its player_to_move is the
\* engine's color, and the moves of its children together with its untried
\* moves are exactly get_valid_moves(color), each once
C28_RetainedRootRepresentsBoard ==
  (root # 0 /\ current_color = color)
    => /\ nodes[root].player_to_move = color
       /\ NodeMoves(root) = SeqToSet(RootMoves)
       /\ Len(nodes[root].children) + Len(nodes[root].untried_moves) = Len(RootMoves)

\* a second choose_move call searches from a root that was two levels down
\* in the tree of the first call and has come with visits
C28_Witness ==
  /\ calls = 2
  /\ pc = "iter"
  /\ root # 0
  /\ nodes[root].move # None
  /\ nodes[root].visits >= 1
  /\ nodes[root].player_to_move = color
  /\ RootMoves # <<>>


\* C29: at the start of every iteration the root's player_to_move is the
\* engine's color, the color with which the descent starts
C29_RootPlayerIsEngineColor ==
  pc = "iter" => nodes[root].player_to_move = color

\* C30: a notification that promotes a child of the root names the root's
\* player_to_move as the player
C30_RerootOnlyForRootPlayer ==
  [][\A a \in NotifyInputs :
       (/\ root # 0
        /\ a[2] # nodes[root].player_to_move
        /\ NotifyMovePlayed(a[1], a[2]))
         => root' \notin SeqToSet(nodes[root].children)]_vars


\* the node the selection loop of the coming iteration stops at, with the
\* working grid and the color to move there
Reached == Selection(nodes, root, CallerBoard, color)

\* C31: an iteration whose selection stops at a node with untried moves takes
\* exactly one move out of that node's untried list and appends exactly one
\* child with that move, whose player_to_move is the opponent of the color
\* that played the move and whose untried moves are that opponent's valid
\* moves on the working board after the move; no other node changes; an
\* iteration that stops at a node without untried moves adds no node
C31_ExpansionAddsOneChild ==
  [][IterStart =>
       LET n == Reached.node
           p == Reached.player
           c == Len(nodes) + 1
       IN IF nodes[n].untried_moves # <<>>
          THEN /\ Len(nodes') = c
               /\ nodes'[c].move \in SeqToSet(nodes[n].untried_moves)
               /\ Len(nodes'[n].untried_moves) = Len(nodes[n].untried_moves) - 1
               /\ SeqToSet(nodes'[n].untried_moves)
                    = SeqToSet(nodes[n].untried_moves) \ {nodes'[c].move}
               /\ nodes'[n].children = Append(nodes[n].children, c)
               /\ nodes'[c].parent = n
               /\ nodes'[c].children = <<>>
               /\ nodes'[c].player_to_move = opponent(p)
               /\ boards'[sim_board'] =
                    make_move(Reached.board, nodes'[c].move[1], nodes'[c].move[2], p)
               /\ nodes'[c].untried_moves
                    = get_valid_moves(boards'[sim_board'], opponent(p))
               /\ \A a \in 1 .. Len(nodes) :
                    a # n => nodes'[a] = nodes[a]
               /\ nodes'[n] = [nodes[n] EXCEPT !.untried_moves = nodes'[n].untried_moves,
                                               !.children = nodes'[n].children]
          ELSE nodes' = nodes]_vars

\* an expansion has just added a node that itself has untried moves, below a
\* node that keeps an untried move
C31_Witness ==
  /\ pc = "rollout"
  /\ plies = 0
  /\ node = Len(nodes)
  /\ nodes[node].visits = 0
  /\ nodes[node].untried_moves # <<>>
  /\ nodes[node].parent # 0
  /\ nodes[nodes[node].parent].untried_moves # <<>>


\* the visit count of the root a choose_move call would use at entry
EntryVisits == IF root = 0 THEN 0 ELSE nodes[root].visits

Max(x, y) == IF x >= y THEN x ELSE y

\* C32: a choose_move call with a valid move sets out to run exactly
\* max(0, iterations - v) iterations, v being the visits of the root used at
\* entry; every completed iteration adds one visit to the root; the call
\* returns after exactly that many iterations, with max(iterations, v) visits
\* at the root, never fewer than the budget
C32_RunsRemainingIterations ==
  /\ [][(ChooseMoveStep /\ RootMoves # <<>>)
          => /\ remaining' = Max(0, iterations - EntryVisits)
             /\ nodes'[root'].visits = EntryVisits
             /\ i' = 0]_vars
  /\ []((pc \in {"iter", "rollout", "done"} /\ RootMoves # <<>>)
          => LET v == nodes[root].visits - i
             IN /\ v >= 0
                /\ remaining = Max(0, iterations - v)
                /\ i <= remaining
                /\ pc = "done" =>
                     /\ i = remaining
                     /\ nodes[root].visits = Max(iterations, v)
                     /\ nodes[root].visits >= iterations)

\* a call on a re-rooted root that came with one visit has returned after
\* running the two iterations the budget of three left over
C32_Witness ==
  /\ pc = "done"
  /\ RootMoves # <<>>
  /\ iterations = 3
  /\ nodes[root].move # None
  /\ remaining = 2
  /\ i = 2
  /\ nodes[root].visits = 3


\* the nodes of the tree under the current root
TreeNodes == IF root = 0 THEN {} ELSE {root} \cup Descendants(nodes, root)

\* backpropagation changes no node outside the tree of the current root
BackpropagationStaysInTree ==
  IterFinish => \A a \in 1 .. Len(nodes) : a \notin TreeNodes => nodes'[a] = nodes[a]

\* C33 (as stated): after a successful re-root the promoted child has no
\* parent reference and the former parent no longer lists the promoted child
\* among its children, and backpropagation changes no node outside the tree
\* of the current root
C33_RerootSeversBothReferences ==
  [][/\ \A a \in NotifyInputs :
          (root # 0 /\ NotifyMovePlayed(a[1], a[2]) /\ root' # 0)
            => /\ nodes'[root'].parent = 0
               /\ root' \notin SeqToSet(nodes'[root].children)
     /\ BackpropagationStaysInTree]_vars

\* C33 (amended): after a successful re-root the promoted child has no parent
\* reference, while the former parent keeps it in its list of children, as
\* it was; backpropagation changes no node outside the tree of the current
\* root
C33_RerootClearsParentOnly ==
  [][/\ \A a \in NotifyInputs :
          (root # 0 /\ NotifyMovePlayed(a[1], a[2]) /\ root' # 0)
            => /\ nodes'[root'].parent = 0
               /\ nodes'[root] = nodes[root]
               /\ root' \in SeqToSet(nodes'[root].children)
     /\ BackpropagationStaysInTree]_vars

\* an iteration has been backpropagated on a re-rooted tree while the former
\* root, with its visits, still lists the new root among its children
C33_Witness ==
  /\ pc \in {"iter", "done"}
  /\ i >= 1
  /\ root # 0
  /\ nodes[root].move # None
  /\ nodes[root].parent = 0
  /\ \E a \in 1 .. Len(nodes) :
       /\ a \notin TreeNodes
       /\ nodes[a].visits >= 1
       /\ root \in SeqToSet(nodes[a].children)


\* C34: every node has a visit count that is a natural number and a
\* cumulative reward r with 0 <= r <= visits and 2 * r a natural number (wins
\* holds 2 * r)
C34_StatisticsInRange ==
  \A n \in 1 .. Len(nodes) :
    /\ nodes[n].visits \in Nat
    /\ nodes[n].wins \in Nat
    /\ nodes[n].wins <= 2 * nodes[n].visits

\* between two iterations a node has been credited a draw, and another node
\* has won every one of its two or more visits
C34_Witness ==
  /\ pc \in {"iter", "done"}
  /\ \E n \in 1 .. Len(nodes) : nodes[n].wins % 2 = 1
  /\ \E n \in 1 .. Len(nodes) :
       nodes[n].visits >= 2 /\ nodes[n].wins = 2 * nodes[n].visits


\* the sum of the visit counts of the nodes listed in ch
RECURSIVE SumVisits(_, _)
SumVisits(ns, ch) ==
  IF ch = <<>> THEN 0 ELSE ns[Head(ch)].visits + SumVisits(ns, Tail(ch))

\* C35: between iterations, in the tree under the current root, a root made
\* by choose_move (a node without a move) has as many visits as its children
\* together, and as many as the
\* iterations completed on it; a node made by expansion has at least one
\* visit, and one more than its children together when it has a child;
\* re-rooting keeps these relations (the promoted node is a node made by
\* expansion)
C35_VisitAccounting ==
  pc # "rollout" =>
    /\ \A n \in TreeNodes :
         LET below == SumVisits(nodes, nodes[n].children)
         IN IF nodes[n].move = None
            THEN nodes[n].visits = below
            ELSE /\ nodes[n].visits >= 1
                 /\ nodes[n].children # <<>> => nodes[n].visits = 1 + below
    /\ (pc \in {"iter", "done"} /\ root # 0 /\ nodes[root].move = None
          /\ RootMoves # <<>> /\ remaining = iterations)
         => nodes[root].visits = i

\* an iteration has been completed on a re-rooted root that has a child and
\* came with a visit of its own
C35_Witness ==
  /\ pc \in {"iter", "done"}
  /\ i >= 1
  /\ root # 0
  /\ nodes[root].move # None
  /\ nodes[root].children # <<>>
  /\ nodes[root].visits >= 3
  /\ \E a \in 1 .. Len(nodes) : nodes[a].move = None /\ nodes[a].visits >= 2


\* the nodes on which the selection loop started at node n calls
\* uct_select_child
RECURSIVE SelectCallers(_, _)
SelectCallers(ns, n) ==
  IF ns[n].untried_moves = <<>> /\ ns[n].children # <<>>
  THEN {n} \cup SelectCallers(ns, uct_select_child(ns, n))
  ELSE {}

\* C36: at the start of an iteration, every node on which the selection loop
\* is about to call uct_select_child has a child, has at least one visit
\* itself, and has no child without a visit
C36_SelectionNeverSeesUnvisited ==
  pc = "iter" =>
    \A n \in SelectCallers(nodes, root) :
      /\ nodes[n].children # <<>>
      /\ nodes[n].visits >= 1
      /\ \A c \in SeqToSet(nodes[n].children) : nodes[c].visits >= 1

\* an iteration is about to call uct_select_child on the root and then on a
\* child of the root
C36_Witness ==
  /\ pc = "iter"
  /\ root # 0
  /\ Cardinality(SelectCallers(nodes, root)) >= 2


\* ---------------------------------------------------------------------------
\* C37: the GUI serialises the calls of the engine.  At most one worker thread
\* is alive, so at most one choose_move call is in progress, and a call in
\* progress is the live worker's; a new search is started only when no worker
\* is alive, the engine is idle and the thinking state is reset (not thinking,
\* not done, no result waiting), a stored result is waiting only while the
\* GUI still thinks; and while a search is in progress neither the live board
\* nor the side to move changes.
SearchInProgress == live_workers > 0

C37_GuiSerialisesEngineCalls ==
  /\ [](/\ live_workers \in {0, 1}
        /\ pc # "idle" => SearchInProgress
        /\ SearchInProgress => ai_thinking /\ ~ai_done
        /\ ai_done => ai_thinking)
  /\ [][live_workers' > live_workers
          => /\ live_workers = 0
             /\ pc = "idle"
             /\ ~ai_thinking
             /\ ~ai_done
             /\ ai_result_move = None]_vars
  /\ [][SearchInProgress
          => /\ boards'["board"] = boards["board"]
             /\ current_color' = current_color]_vars

\* the worker of a second search has been started, on the tree the first
\* search has left in the engine, after the human has answered the first move
C37_Witness ==
  /\ SearchInProgress
  /\ ai_thinking
  /\ root # 0
  /\ nodes[root].visits > 0
  /\ Cardinality({c \in Rows \X Rows : boards["board"][c[1]][c[2]] # EMPTY}) >= 6


\* ------------------------------------------- gui.py: player against player
\* start_game in mode "pvp": ai_color and ai_player are None, so no engine
\* exists; the engine's variables keep the values of an engine never called.
InitPvp ==
  /\ boards = [board |-> InitialBoard, sim |-> NoBoard]
  /\ state = "game"
  /\ ai_thinking = FALSE
  /\ ai_done = FALSE
  /\ ai_result_move = None
  /\ live_workers = 0
  /\ legacy = NoLegacy
  /\ legacy_ret = NoCall
  /\ current_color = BLACK
  /\ color = WHITE
  /\ iterations = 1
  /\ seed = NoSeed
  /\ rng = Random(seed)
  /\ first_run = NoRun
  /\ new_size = Size
  /\ raised = NoException
  /\ root = 0
  /\ nodes = <<>>
  /\ pc = "idle"
  /\ sim_board = "sim"
  /\ node = 0
  /\ player_to_move = color
  /\ i = 0
  /\ remaining = 0
  /\ has_cb = FALSE
  /\ ret = None
  /\ progress = <<>>
  /\ rng_draws = 0
  /\ calls = 0
  /\ plies = 0
  /\ board_moves = 0
  /\ move_ok = FALSE

\* the longest game explored, in moves
MaxClicks == 7

\* the discs on the grid b; every move adds one
Discs(b) == Cardinality({c \in Rows \X Rows : b[c[1]][c[2]] # EMPTY})

\* a MOUSEBUTTONDOWN on the cell (row, col) in mode "pvp": the color on turn
\* plays there if the move is valid
handle_game_click_pvp(row, col) ==
  /\ state = "game"
  /\ ~ai_thinking
  /\ Discs(boards["board"]) - Discs(InitialBoard) < MaxClicks
  /\ make_move_ok(boards["board"], row, col, current_color)
  /\ LET b2 == make_move(boards["board"], row, col, current_color)
         g == on_move_made(b2, current_color)
     IN /\ boards' = [boards EXCEPT !["board"] = b2]
        /\ current_color' = g.current_color
        /\ state' = g.state
  /\ UNCHANGED << ai_thinking, ai_done, ai_result_move, live_workers >>
  /\ EngineFrame

\* the "play again" button of the game-over screen: start_game in mode "pvp"
start_game ==
  /\ state = "game_over"
  /\ boards' = [boards EXCEPT !["board"] = InitialBoard]
  /\ state' = "game"
  /\ ai_thinking' = FALSE
  /\ current_color' = BLACK
  /\ UNCHANGED << ai_done, ai_result_move, live_workers >>
  /\ EngineFrame

NextPvp ==
  \/ \E row \in Rows, col \in Rows : handle_game_click_pvp(row, col)
  \/ start_game

SpecPvp == InitPvp /\ [][NextPvp]_vars

\* ---------------------------------------------------------------------------
\* C38: pass policy of the game driver.  In state "game" the color recorded
\* as current has a valid move, and the state is "game_over" exactly when
\* neither color has one; after a move by the color m the turn goes to m's
\* opponent if it can move, stays with m (the opponent is skipped) if only m
\* can move, and the game is over if neither can.
CanMove(b, cc) == get_valid_moves(b, cc) # <<>>

MoveProcessed == state = "game" /\ boards'["board"] # boards["board"]

C38_PassPolicy ==
  /\ [](/\ state \in {"game", "game_over"}
        /\ state = "game" => CanMove(boards["board"], current_color)
        /\ state = "game_over" <=> /\ ~CanMove(boards["board"], BLACK)
                                   /\ ~CanMove(boards["board"], WHITE))
  /\ [][MoveProcessed =>
          LET m == current_color
              b == boards'["board"]
          IN /\ CanMove(b, opponent(m))
                  => state' = "game" /\ current_color' = opponent(m)
             /\ ~CanMove(b, opponent(m)) /\ CanMove(b, m)
                  => state' = "game" /\ current_color' = m
             /\ ~CanMove(b, opponent(m)) /\ ~CanMove(b, m)
                  => state' = "game_over"]_vars

\* a move has just been processed that left the opponent without a valid
\* move: the mover is on turn again in state "game"
C38_Witness ==
  /\ state = "game"
  /\ boards["board"] # InitialBoard
  /\ CanMove(boards["board"], current_color)
  /\ ~CanMove(boards["board"], opponent(current_color))
  /\ ~is_full(boards["board"])

\* one legacy board has been built; no GUI and no engine exist
InitLegacy ==
  /\ boards = [board |-> InitialBoard, sim |-> NoBoard]
  /\ state = "game"
  /\ ai_thinking = FALSE
  /\ ai_done = FALSE
  /\ ai_result_move = None
  /\ live_workers = 0
  /\ legacy = [ref \in {"original"} |-> LegacyBoard]
  /\ legacy_ret = NoCall
  /\ current_color = BLACK
  /\ color = WHITE
  /\ iterations = 1
  /\ seed = NoSeed
  /\ rng = Random(seed)
  /\ first_run = NoRun
  /\ new_size = Size
  /\ raised = NoException
  /\ root = 0
  /\ nodes = <<>>
  /\ pc = "idle"
  /\ sim_board = "sim"
  /\ node = 0
  /\ player_to_move = color
  /\ i = 0
  /\ remaining = 0
  /\ has_cb = FALSE
  /\ ret = None
  /\ progress = <<>>
  /\ rng_draws = 0
  /\ calls = 0
  /\ plies = 0
  /\ board_moves = 0
  /\ move_ok = FALSE

LegacyFrame ==
  UNCHANGED << boards, current_color, color, iterations, root, nodes, pc,
               sim_board, node, player_to_move, i, remaining, has_cb, ret,
               progress, rng_draws, calls, plies, move_ok, rng, seed,
               first_run, new_size, raised, state, ai_thinking, ai_done,
               ai_result_move, live_workers >>

\* a call of get_valid_moves(lc) on the object at ref
LegacyGetValidMoves(ref, lc) ==
  /\ ref \in DOMAIN legacy
  /\ LET g == legacy_get_valid_moves(legacy[ref], lc)
     IN /\ legacy' = [legacy EXCEPT ![ref] = g.obj]
        /\ legacy_ret' = [op |-> "get_valid_moves", ref |-> ref, color |-> lc,
                          moves |-> g.moves, hit |-> g.hit, ok |-> TRUE]
  /\ board_moves' = board_moves
  /\ LegacyFrame

\* a call of make_move(row, col, lc) on the object at ref
LegacyMakeMove(ref, row, col, lc) ==
  /\ ref \in DOMAIN legacy
  /\ board_moves < MaxLegacyMoves
  /\ LET m == legacy_make_move(legacy[ref], row, col, lc)
     IN /\ legacy' = [legacy EXCEPT ![ref] = m.obj]
        /\ legacy_ret' = [op |-> "make_move", ref |-> ref, color |-> lc,
                          moves |-> <<>>, hit |-> FALSE, ok |-> m.ok]
        /\ board_moves' = IF m.ok THEN board_moves + 1 ELSE board_moves
  /\ LegacyFrame

\* a call of is_game_over() on the object at ref
LegacyIsGameOver(ref) ==
  /\ ref \in DOMAIN legacy
  /\ LET g == legacy_is_game_over(legacy[ref])
     IN /\ legacy' = [legacy EXCEPT ![ref] = g.obj]
        /\ legacy_ret' = [op |-> "is_game_over", ref |-> ref, color |-> "white",
                          moves |-> <<>>, hit |-> FALSE, ok |-> g.ok]
  /\ board_moves' = board_moves
  /\ LegacyFrame

\* a call of copy() on the original; the new object is kept at "copy"
LegacyCopy ==
  /\ legacy' = [ref \in {"original", "copy"} |->
                  IF ref = "copy" THEN legacy_copy(legacy["original"])
                  ELSE legacy["original"]]
  /\ legacy_ret' = [op |-> "copy", ref |-> "copy", color |-> "black",
                    moves |-> <<>>, hit |-> FALSE, ok |-> TRUE]
  /\ board_moves' = board_moves
  /\ LegacyFrame

NextLegacy ==
  \/ \E ref \in {"original", "copy"}, lc \in LegacyColors :
       LegacyGetValidMoves(ref, lc)
  \/ \E ref \in {"original", "copy"}, row \in Rows, col \in Rows,
        lc \in LegacyColors : LegacyMakeMove(ref, row, col, lc)
  \/ \E ref \in {"original", "copy"} : LegacyIsGameOver(ref)
  \/ LegacyCopy

SpecLegacy == InitLegacy /\ [][NextLegacy]_vars

\* ---------------------------------------------------------------------------
\* C39: the valid-move cache of the legacy board is never stale.  On every
\* object and for each color, the list get_valid_moves would return now is
\* the list a fresh scan of the object's grid yields; a cached list is the
\* scan of the present grid for the color recorded with it; and the list the
\* last get_valid_moves call returned is the scan for the color it was
\* called with.
C39_CacheNeverStale ==
  /\ \A ref \in DOMAIN legacy : \A lc \in LegacyColors :
       legacy_get_valid_moves(legacy[ref], lc).moves
         = legacy_scan(legacy[ref].board, lc, 0)
  /\ \A ref \in DOMAIN legacy :
       legacy[ref].valid_moves_cache.cached
         => /\ legacy[ref].cache_player \in LegacyColors
            /\ legacy[ref].valid_moves_cache.moves
                 = legacy_scan(legacy[ref].board, legacy[ref].cache_player, 0)
  /\ legacy_ret.op = "get_valid_moves"
       => legacy_ret.moves
            = legacy_scan(legacy[legacy_ret.ref].board, legacy_ret.color, 0)

\* get_valid_moves has just answered from the cache of the copy, on a grid
\* that moves have changed since the copy was made, while the original holds
\* a cached list for the other color
C39_Witness ==
  /\ legacy_ret.op = "get_valid_moves"
  /\ legacy_ret.hit
  /\ legacy_ret.ref = "copy"
  /\ legacy["copy"].board # legacy["original"].board
  /\ legacy["copy"].board # LegacyBoard.board
  /\ legacy["original"].valid_moves_cache.cached
  /\ legacy["original"].cache_player # legacy["copy"].cache_player

====
